---------------------------- MODULE Spec2Model ----------------------------
(***************************************************************************)
(* A model of libuiohook as vendored by iohook: the Windows hook session   *)
(* (run / hook_stop / the message loop / the two low-level hook            *)
(* callbacks), the process-global modifier mask, and the virtual-code      *)
(* tables of the Windows and macOS input helpers.                          *)
(*                                                                         *)
(* The Windows dispatch_event.c (dispatch_key_press, dispatch_button_*,    *)
(* dispatch_mouse_move, dispatch_hook_enable ...) is not among the         *)
(* sources; the operators that stand for it follow sections 3 and 4.4 of   *)
(* the specification and are marked as such.                               *)
(***************************************************************************)
EXTENDS Integers, Sequences, FiniteSets, TLC

(***************************************************************************)
(* Bounds of the model.                                                    *)
(***************************************************************************)
\* Posted messages the hook thread's queue holds; PostMessage and
\* PostThreadMessage fail when it is full.
MaxQueue == 2
\* Windows the process may own at once; CreateWindowEx fails beyond it.
MaxWindows == 2
\* UTF-16 code units one key press resolves to (ToUnicodeEx result).
MaxChars == 2
\* Injected inputs the OS holds for the hooks of the running session.
MaxPending == 1
\* UTF-16 code units of a text handed to hook_post_text.
MaxText == 2

(***************************************************************************)
(* Program constants.                                                      *)
(***************************************************************************)
UIOHOOK_SUCCESS == 0
UIOHOOK_FAILURE == 1
UIOHOOK_ERROR_OUT_OF_MEMORY == 2
UIOHOOK_ERROR_POST_TEXT_NULL == 3
UIOHOOK_ERROR_X_OPEN_DISPLAY == 32
UIOHOOK_ERROR_CREATE_RUN_LOOP_SOURCE == 66
UIOHOOK_ERROR_CREATE_OBSERVER == 68
UIOHOOK_ERROR_SET_WINDOWS_HOOK_EX == 48
UIOHOOK_ERROR_GET_MODULE_HANDLE == 49
UIOHOOK_ERROR_CREATE_INVISIBLE_WINDOW == 50

VC_UNDEFINED == 0
VC_ENTER == 10
VC_A == 65
VC_SHIFT_L == 40976
VC_KP_ENTER == 125

MASK_SHIFT_L == 1
MASK_CTRL_L == 2
MASK_META_L == 4
MASK_ALT_L == 8
MASK_SHIFT_R == 16
MASK_CTRL_R == 32
MASK_META_R == 64
MASK_ALT_R == 128
MASK_BUTTON1 == 256
MASK_BUTTON2 == 512
MASK_BUTTON3 == 1024
MASK_BUTTON4 == 2048
MASK_BUTTON5 == 4096
MASK_NUM_LOCK == 8192
MASK_CAPS_LOCK == 16384
MASK_SCROLL_LOCK == 32768

MOUSE_NOBUTTON == 0
MOUSE_BUTTON1 == 1
MOUSE_BUTTON2 == 2
MOUSE_BUTTON3 == 3
MOUSE_BUTTON4 == 4
MOUSE_BUTTON5 == 5

\* Windows SDK values the sources use by name.
VK_RETURN == 13
VK_LSHIFT == 160
VK_RSHIFT == 161
VK_LCONTROL == 162
VK_RCONTROL == 163
VK_LMENU == 164
VK_RMENU == 165
VK_LWIN == 91
VK_RWIN == 92
VK_NUMLOCK == 144
VK_CAPITAL == 20
VK_SCROLL == 145
VK_LBUTTON == 1
VK_RBUTTON == 2
VK_MBUTTON == 4
VK_XBUTTON1 == 5
VK_XBUTTON2 == 6
VK_CLEAR == 12
VK_OEM_CLEAR == 254
VK_SHIFT == 16
VK_CONTROL == 17
VK_MENU == 18
KEYEVENTF_EXTENDEDKEY == 1
XBUTTON1 == 1
XBUTTON2 == 2
\* macOS: "no native code"
kVK_Undefined == 255
\* CGEventFlags bits post_event.c uses by name.
kCGEventFlagMaskShift == 131072
kCGEventFlagMaskControl == 262144
kCGEventFlagMaskAlternate == 524288
kCGEventFlagMaskCommand == 1048576
kCGEventFlagMaskNumericPad == 2097152
\* #define MAX_WINDOWS_COORD_VALUE ((1 << 16) - 1)
MAX_WINDOWS_COORD_VALUE == 65535

(***************************************************************************)
(* 16-bit unsigned arithmetic (uint16_t modifier_mask).                    *)
(***************************************************************************)
RECURSIVE BitAnd(_, _)
BitAnd(a, b) ==
  IF a = 0 \/ b = 0 THEN 0
  ELSE (a % 2) * (b % 2) + 2 * BitAnd(a \div 2, b \div 2)

RECURSIVE BitOr(_, _)
BitOr(a, b) ==
  IF a = 0 THEN b
  ELSE IF b = 0 THEN a
  ELSE (IF a % 2 = 1 \/ b % 2 = 1 THEN 1 ELSE 0) + 2 * BitOr(a \div 2, b \div 2)

U16 == 65536

\* modifier_mask |= mask
set_modifier_mask(m, mask) == BitOr(m, mask) % U16

\* modifier_mask &= ~mask
unset_modifier_mask(m, mask) == BitAnd(m, (U16 - 1) - (mask % U16))

\* return modifier_mask
get_modifiers(m) == m

win_vcode_keycode_table ==
  << <<211, 3>>, <<8, 8>>, <<9, 9>>, <<12, 12>>, <<12, 254>>, <<10, 13>>,
     <<125, 13>>, <<40976, 160>>, <<45072, 161>>, <<40976, 16>>, <<40977, 162>>, <<45073, 163>>,
     <<40977, 17>>, <<40978, 164>>, <<45074, 165>>, <<40978, 18>>, <<19, 19>>, <<20, 20>>,
     <<21, 21>>, <<233, 21>>, <<265, 22>>, <<232, 23>>, <<231, 24>>, <<230, 25>>,
     <<25, 25>>, <<264, 26>>, <<27, 27>>, <<28, 28>>, <<29, 29>>, <<30, 30>>,
     <<263, 31>>, <<32, 32>>, <<33, 33>>, <<34, 34>>, <<35, 35>>, <<36, 36>>,
     <<37, 37>>, <<38, 38>>, <<39, 39>>, <<40, 40>>, <<157, 41>>, <<156, 42>>,
     <<158, 43>>, <<154, 44>>, <<155, 45>>, <<127, 46>>, <<159, 47>>, <<48, 48>>,
     <<49, 49>>, <<50, 50>>, <<51, 51>>, <<52, 52>>, <<53, 53>>, <<54, 54>>,
     <<55, 55>>, <<56, 56>>, <<57, 57>>, <<65, 65>>, <<66, 66>>, <<67, 67>>,
     <<68, 68>>, <<69, 69>>, <<70, 70>>, <<71, 71>>, <<72, 72>>, <<73, 73>>,
     <<74, 74>>, <<75, 75>>, <<76, 76>>, <<77, 77>>, <<78, 78>>, <<79, 79>>,
     <<80, 80>>, <<81, 81>>, <<82, 82>>, <<83, 83>>, <<84, 84>>, <<85, 85>>,
     <<86, 86>>, <<87, 87>>, <<88, 88>>, <<89, 89>>, <<90, 90>>, <<41117, 91>>,
     <<45213, 92>>, <<525, 93>>, <<57439, 95>>, <<96, 96>>, <<97, 97>>, <<98, 98>>,
     <<99, 99>>, <<100, 100>>, <<101, 101>>, <<102, 102>>, <<103, 103>>, <<104, 104>>,
     <<105, 105>>, <<105, 105>>, <<106, 106>>, <<107, 107>>, <<108, 108>>, <<109, 109>>,
     <<110, 110>>, <<111, 111>>, <<112, 112>>, <<113, 113>>, <<114, 114>>, <<115, 115>>,
     <<116, 116>>, <<117, 117>>, <<118, 118>>, <<119, 119>>, <<120, 120>>, <<121, 121>>,
     <<122, 122>>, <<123, 123>>, <<61440, 124>>, <<61441, 125>>, <<61442, 126>>, <<61443, 127>>,
     <<61444, 128>>, <<61445, 129>>, <<61446, 130>>, <<61447, 131>>, <<61448, 132>>, <<61449, 133>>,
     <<61450, 134>>, <<61451, 135>>, <<144, 144>>, <<145, 145>>, <<124, 146>>, <<57450, 166>>,
     <<57449, 167>>, <<57447, 168>>, <<57448, 169>>, <<57445, 170>>, <<57446, 171>>, <<57394, 172>>,
     <<57376, 173>>, <<57392, 174>>, <<57390, 175>>, <<57369, 176>>, <<57360, 177>>, <<57380, 178>>,
     <<57378, 179>>, <<57452, 180>>, <<57453, 181>>, <<57382, 182>>, <<57383, 183>>, <<59, 186>>,
     <<61, 187>>, <<44, 188>>, <<45, 189>>, <<46, 190>>, <<47, 191>>, <<192, 192>>,
     <<91, 219>>, <<93, 220>>, <<92, 221>>, <<222, 222>>, <<3585, 223>>, <<153, 226>>,
     <<261, 229>>, <<57488, 246>>, <<57489, 247>>, <<57490, 248>>, <<57491, 249>>, <<57492, 250>>,
     <<57493, 251>>, <<57494, 252>>, <<57495, 253>> >>
darwin_vcode_keycode_table ==
  << <<65, 0>>, <<83, 1>>, <<68, 2>>, <<70, 3>>, <<72, 4>>, <<71, 5>>,
     <<90, 6>>, <<88, 7>>, <<67, 8>>, <<86, 9>>, <<153, 10>>, <<66, 11>>,
     <<81, 12>>, <<87, 13>>, <<69, 14>>, <<82, 15>>, <<89, 16>>, <<84, 17>>,
     <<49, 18>>, <<50, 19>>, <<51, 20>>, <<52, 21>>, <<54, 22>>, <<53, 23>>,
     <<61, 24>>, <<57, 25>>, <<55, 26>>, <<45, 27>>, <<56, 28>>, <<48, 29>>,
     <<92, 30>>, <<79, 31>>, <<85, 32>>, <<91, 33>>, <<73, 34>>, <<80, 35>>,
     <<10, 36>>, <<76, 37>>, <<74, 38>>, <<222, 39>>, <<75, 40>>, <<59, 41>>,
     <<93, 42>>, <<44, 43>>, <<47, 44>>, <<78, 45>>, <<77, 46>>, <<46, 47>>,
     <<9, 48>>, <<32, 49>>, <<192, 50>>, <<8, 51>>, <<27, 53>>, <<45213, 54>>,
     <<41117, 55>>, <<40976, 56>>, <<20, 57>>, <<40978, 58>>, <<40977, 59>>, <<45072, 60>>,
     <<45074, 61>>, <<45073, 62>>, <<526, 63>>, <<61444, 64>>, <<110, 65>>, <<106, 67>>,
     <<107, 69>>, <<12, 71>>, <<57390, 72>>, <<57392, 73>>, <<57376, 74>>, <<111, 75>>,
     <<125, 76>>, <<109, 78>>, <<61445, 79>>, <<61446, 80>>, <<124, 81>>, <<96, 82>>,
     <<97, 83>>, <<98, 84>>, <<99, 85>>, <<100, 86>>, <<101, 87>>, <<102, 88>>,
     <<103, 89>>, <<61447, 90>>, <<104, 91>>, <<105, 92>>, <<524, 93>>, <<523, 94>>,
     <<528, 95>>, <<116, 96>>, <<117, 97>>, <<118, 98>>, <<114, 99>>, <<119, 100>>,
     <<120, 101>>, <<240, 102>>, <<122, 103>>, <<21, 104>>, <<61440, 105>>, <<61443, 106>>,
     <<61441, 107>>, <<121, 109>>, <<525, 110>>, <<123, 111>>, <<61442, 113>>, <<159, 114>>,
     <<36, 115>>, <<33, 116>>, <<127, 117>>, <<115, 118>>, <<35, 119>>, <<113, 120>>,
     <<34, 121>>, <<112, 122>>, <<37, 123>>, <<39, 124>>, <<40, 125>>, <<38, 126>>,
     <<57438, 230>>, <<57388, 238>>, <<57378, 240>>, <<57369, 241>>, <<57360, 242>>, <<527, 179>> >>

(***************************************************************************)
(* Table lookups: both directions scan the table from the top and stop at  *)
(* the first match.                                                        *)
(***************************************************************************)
\* The least of a set of row numbers, 0 when it is empty.
FirstOf(rows) == IF rows = {} THEN 0 ELSE CHOOSE i \in rows : \A j \in rows : i <= j

\* for (i = 0; i < size; i++) if (x == table[i][col]) { ...; break; }
\* The row the scan stops at, or 0 when it runs off the table.
FirstRow(t, col, x) == FirstOf({i \in 1..Len(t) : t[i][col] = x})

\* The cell of row i the scan assigns, or the value the variable was
\* initialised with when the scan found no row.
RowValue(t, i, col, default) == IF i = 0 THEN default ELSE t[i][col]

\* if (vcode == VC_ENTER && flags & KEYEVENTF_EXTENDEDKEY) vcode = VC_KP_ENTER;
extended_enter(vcode, flags) ==
  IF vcode = VC_ENTER /\ BitAnd(flags, KEYEVENTF_EXTENDEDKEY) # 0
  THEN VC_KP_ENTER
  ELSE vcode

\* Windows keycode_to_vcode without the extended-key refinement.
keycode_to_vcode_noext(vk_code, flags) ==
  RowValue(win_vcode_keycode_table, FirstRow(win_vcode_keycode_table, 2, vk_code), 1, VC_UNDEFINED)

\* Windows keycode_to_vcode(vk_code, flags)
keycode_to_vcode(vk_code, flags) ==
  extended_enter(RowValue(win_vcode_keycode_table,
                          FirstRow(win_vcode_keycode_table, 2, vk_code), 1, VC_UNDEFINED),
                 flags)

\* Windows vcode_to_keycode with the scan running to the end of the table.
vcode_to_keycode_last(vcode) ==
  LET rows == {i \in 1..Len(win_vcode_keycode_table) : win_vcode_keycode_table[i][1] = vcode}
  IN IF rows = {} THEN 0
     ELSE win_vcode_keycode_table[CHOOSE i \in rows : \A j \in rows : i >= j][2]

\* Windows vcode_to_keycode(vcode)
vcode_to_keycode(vcode) ==
  RowValue(win_vcode_keycode_table, FirstRow(win_vcode_keycode_table, 1, vcode), 2, 0)

\* macOS keycode_to_vcode(keycode)
darwin_keycode_to_vcode(keycode) ==
  RowValue(darwin_vcode_keycode_table, FirstRow(darwin_vcode_keycode_table, 2, keycode), 1, VC_UNDEFINED)

\* macOS vcode_to_keycode(vcode)
darwin_vcode_to_keycode(vcode) ==
  RowValue(darwin_vcode_keycode_table, FirstRow(darwin_vcode_keycode_table, 1, vcode), 2, kVK_Undefined)

(***************************************************************************)
(* State.                                                                  *)
(***************************************************************************)
VARIABLES
  pc,                     \* the hook thread: "idle" (outside run) or "loop"
  run_ret,                \* what the last call of run returned, NoStatus while it runs
  hook_events,            \* HOOK_ENABLED / HOOK_DISABLED dispatched by this call of run
  hInst,                  \* module handle (0 is NULL)
  hook_thread_id,         \* 0 until run stores the thread id
  keyboard_event_hhook,   \* hook handles (0 is NULL)
  mouse_event_hhook,
  invisible_win_hwnd,     \* window handle (0 is NULL)
  invisible_win_class_initialized,
  current_modifiers,      \* the mask input_hook.c declares
  modifier_mask,          \* the mask input_helper.c keeps; get_modifiers reads it
  monitors_enumerated,    \* monitor helper cache
  left,
  top,
  os_hooks,               \* OS: the low-level hooks installed
  os_windows,             \* OS: the windows that exist
  os_monitors,            \* OS: the origin <<left, top>> of each monitor
  msg_queue,              \* OS: messages posted to the hook thread
  quit_flag,              \* OS: PostQuitMessage was called on the hook thread
  stop_pc,                \* the thread in hook_stop: "idle" or "close_posted"
  stop_status,            \* what the last call of hook_stop returned
  stop_armed,             \* hook_stop posted WM_CLOSE to the running session
  stop_done,              \* ... and WM_QUIT too, and that session has not returned
  ended_by_stop,          \* the last return of run followed such a hook_stop
  init_poll,              \* what GetKeyState reported at initialize_modifiers,
                          \* while no hook callback has run since
  cb,                     \* the last hook callback: its arguments, calls and result
  tbl,                    \* the last table lookup
  post,                   \* the last hook_post_event / hook_post_text call
  os_input,               \* OS: injected key input not yet delivered to the hooks
  injected,               \* OS: the injected input the keyboard hook was last called with
  current_modifier_mask,  \* macOS post_event.c: the shadow modifier flags
  current_motion_event,   \* macOS post_event.c: the event type a move is posted as
  current_motion_button,  \* macOS post_event.c: ... and its button
  posted_down,            \* macOS: the modifier keys and the buttons posted as
                          \* pressed and not posted as released since
  dispatch_sync_f_f,      \* macOS input_helper.c: NULL unless dlsym found
                          \* dispatch_sync_f and _dispatch_main_q
  load_status,            \* what the last load_input_helper returned
  dispatch_main_queue,    \* OS: the functions submitted to the main dispatch queue
  main_runloop_info,      \* macOS input_helper.c: the run-loop source and observer
  main_runloop_mutex,     \* ... the thread that holds the mutex, or NULL
  main_runloop_cond,      \* ... the threads waiting on the condition variable
  main_runloop,           \* OS: the main run loop
  tis_keycode_message,    \* macOS: the event_to_unicode call of the hook thread
  other,                  \* run called by another thread: where it stands, what it
                          \* returned, its hook events, the hooks and windows that
                          \* thread owns, its message queue and its quit flag
  deadkey_state,          \* macOS: static UInt32 deadkey_state
  prev_keyboard_layout,   \* macOS: static TISInputSourceRef prev_keyboard_layout
  os_keyboard_layout,     \* macOS: what TISCopyCurrentKeyboardLayoutInputSource gives
  uc_translate,           \* macOS: the last call of UCKeyTranslate
  display_lock,           \* X11: the lock of helper_disp, its owner and depth
  key_mappings_loaded,    \* X11: static bool key_mappings_loaded
  vcode_keycode_table,    \* X11: static key_mapping vcode_keycode_table[]
  xkb                     \* X11: the keyboard description load_key_mappings read

vars ==
  << pc, run_ret, hook_events, hInst, hook_thread_id, keyboard_event_hhook,
     mouse_event_hhook, invisible_win_hwnd, invisible_win_class_initialized,
     current_modifiers, modifier_mask, monitors_enumerated, left, top,
     os_hooks, os_windows, os_monitors, msg_queue, quit_flag, stop_pc,
     stop_status, stop_armed, stop_done, ended_by_stop, init_poll, cb, tbl,
     post, os_input, injected, current_modifier_mask, current_motion_event,
     current_motion_button, posted_down, dispatch_sync_f_f, load_status, dispatch_main_queue,
     main_runloop_info, main_runloop_mutex, main_runloop_cond, main_runloop,
     tis_keycode_message, other, deadkey_state, prev_keyboard_layout,
     os_keyboard_layout, uc_translate, display_lock, key_mappings_loaded,
     vcode_keycode_table, xkb >>

run_vars ==
  << pc, run_ret, hook_events, hInst, hook_thread_id, keyboard_event_hhook,
     mouse_event_hhook, invisible_win_hwnd, invisible_win_class_initialized,
     current_modifiers, os_hooks, os_windows, ended_by_stop >>

session_vars == << run_vars, other >>

monitor_vars == << monitors_enumerated, left, top, os_monitors >>

stop_vars == << stop_pc, stop_status, stop_armed, stop_done >>

darwin_post_vars ==
  << current_modifier_mask, current_motion_event, current_motion_button, posted_down >>

runloop_vars ==
  << dispatch_sync_f_f, load_status, dispatch_main_queue, main_runloop_info,
     main_runloop_mutex, main_runloop_cond, main_runloop, tis_keycode_message >>

input_vars == << os_input, injected >>

unicode_vars ==
  << deadkey_state, prev_keyboard_layout, os_keyboard_layout, uc_translate >>

keymap_vars == << key_mappings_loaded, vcode_keycode_table, xkb >>

helper_vars == << unicode_vars, display_lock, keymap_vars >>

synthesis_vars == << post, input_vars, darwin_post_vars, runloop_vars, helper_vars >>

NULL == 0
\* No call has returned a status yet.
NoStatus == -1
\* The one thread that calls run, and the module handle GetModuleHandle gives.
HookThread == 1
\* A thread of the application other than the one that calls run.
AppThread == 2
Module == 1
HHook == 1
\* The handle SetWindowsHookEx gives a caller of run on another thread.
OtherHHook == 2
\* The process was ended by a fault inside the call.
Crashed == -2

NoPoll == [fresh |-> FALSE, keyboard |-> FALSE, mouse |-> FALSE, held |-> {}]

NoCallback ==
  [ proc |-> "none", nCode |-> 0, handled |-> FALSE, consumed |-> FALSE,
    called_next |-> FALSE, next_result |-> 0, hook_result |-> 0,
    events |-> << >>, mask_after |-> 0 ]

\* The NULL main_runloop_info: no cf_runloop_info is allocated.
NoRunLoopInfo ==
  [ created |-> FALSE, source |-> [ signaled |-> FALSE, perform |-> NULL ],
    observer |-> FALSE ]

\* cf_runloop_info as create_main_runloop_info leaves it: the observer of
\* kCFRunLoopExit, and the source, created with a context that calloc zeroed
\* (perform is NULL), both added to the main run loop.
RunLoopInfo ==
  [ created |-> TRUE, source |-> [ signaled |-> FALSE, perform |-> NULL ],
    observer |-> TRUE ]

\* TISKeycodeMessage of a call of event_to_unicode by thread, length = 0,
\* with where the call stands (pc) and what it met: path is the branch taken,
\* mode whether the main run loop was found running, info whether
\* main_runloop_info was set, signaled whether CFRunLoopSourceSignal was
\* called, lookup the thread tis_message_to_unicode ran on (NULL: none);
\* produced is the length a lookup gives.
TISKeycodeMessage(thread, produced, path, at) ==
  [ thread |-> thread, length |-> 0, produced |-> produced, path |-> path,
    pc |-> at, mode |-> FALSE, info |-> FALSE, signaled |-> FALSE, lookup |-> NULL ]

\* No call of event_to_unicode yet.
NoMessage == TISKeycodeMessage(NULL, 0, "none", "none")

InitRunLoop ==
  /\ dispatch_sync_f_f = NULL
  /\ load_status = NoStatus
  /\ dispatch_main_queue = << >>
  /\ main_runloop_info = NoRunLoopInfo
  /\ main_runloop_mutex = NULL
  /\ main_runloop_cond = {}
  /\ main_runloop = "stopped"
  /\ tis_keycode_message = NoMessage

\* The thread of the main run loop (macOS).
MainThread == 3

NoEvent ==
  [ type |-> "none", keycode |-> 0, button |-> 0, x |-> 0, y |-> 0,
    mask |-> 0, direction |-> 0, rotation |-> 0 ]

\* No injected input has reached the keyboard hook.
NoInjected ==
  [ input |-> [ kind |-> "none", code |-> 0, flags |-> {}, dx |-> 0, dy |-> 0,
                n |-> 0, ok |-> FALSE ],
    posted |-> NoEvent ]

NoCache == [ enumerated |-> FALSE, left |-> 0, top |-> 0, wrote |-> FALSE ]

\* No synthesis call yet, in a build for Windows.  monitors and cache are the
\* monitors at the time of the call and the monitor cache it left; keycode is
\* the key code the X11 key map gave; input is the INPUT array that
\* hook_post_text of Windows filled.
NoPost ==
  [ platform |-> "windows", fn |-> "none", thread |-> 0, event |-> NoEvent,
    null |-> FALSE, text |-> << >>, status |-> NoStatus, calls |-> << >>,
    wrote_cache |-> FALSE, extended |-> FALSE, monitors |-> {}, cache |-> NoCache,
    keycode |-> 0, input |-> << >> ]

\* No call of run by another thread.
NoOther ==
  [ pc |-> "idle", ret |-> NoStatus, events |-> << >>, hooks |-> {},
    hwnds |-> {}, queue |-> << >>, quit |-> FALSE ]

\* UCKeyTranslate has not been called.
NoTranslate == [ layout |-> NULL, state |-> 0 ]

\* The display lock when no thread holds it.
NoLock == [ owner |-> NULL, level |-> 0 ]

\* XkbGetMap has not been called: no key has a name.
NoXkb == [ min_key_code |-> 0, max_key_code |-> 0, names |-> << >> ]

\* vcode_keycode_table[] as it is compiled: the first two entries, the two
\* entries of VC_BACK_SLASH and the last two entries, no slot filled.
KeyMapping(vcode, x11_key_name) ==
  [ vcode |-> vcode, x11_key_name |-> x11_key_name, x11_key_code |-> 0 ]

InitialKeycodeTable ==
  << KeyMapping("VC_ESCAPE", "ESC"), KeyMapping("VC_F1", "FK01"),
     KeyMapping("VC_BACK_SLASH", "AC12"), KeyMapping("VC_BACK_SLASH", "BKSL"),
     KeyMapping("VC_WWAN", "I254"), KeyMapping("VC_RFKILL", "I255") >>

NoLookup ==
  [ platform |-> "none", native |-> 0, flags |-> 0, done |-> FALSE, vcode |-> 0, back |-> 0 ]

\* No key and no button was posted; the history of the posts is kept where
\* recorded is TRUE, in the specifications whose properties read it.
NoPostedDown == [ recorded |-> FALSE, keys |-> {}, buttons |-> {} ]

InitProgram ==
  /\ pc = "idle"
  /\ run_ret = NoStatus
  /\ hook_events = << >>
  /\ hInst = NULL
  /\ hook_thread_id = 0
  /\ keyboard_event_hhook = NULL
  /\ mouse_event_hhook = NULL
  /\ invisible_win_hwnd = NULL
  /\ invisible_win_class_initialized = FALSE
  /\ current_modifiers = 0
  /\ modifier_mask = 0
  /\ monitors_enumerated = FALSE
  /\ left = 0
  /\ top = 0
  /\ os_hooks = {}
  /\ os_windows = {}
  /\ os_monitors = { << 0, 0, 1920, 1080 >> }
  /\ msg_queue = << >>
  /\ quit_flag = FALSE
  /\ stop_pc = "idle"
  /\ stop_status = NoStatus
  /\ stop_armed = FALSE
  /\ stop_done = FALSE
  /\ ended_by_stop = FALSE
  /\ init_poll = NoPoll
  /\ cb = NoCallback
  /\ os_input = << >>
  /\ injected = NoInjected
  /\ current_modifier_mask = 0
  /\ current_motion_event = "kCGEventMouseMoved"
  /\ current_motion_button = 0
  /\ other = NoOther
  /\ deadkey_state = 0
  /\ prev_keyboard_layout = NULL
  /\ os_keyboard_layout = 1
  /\ uc_translate = NoTranslate
  /\ display_lock = NoLock
  /\ key_mappings_loaded = FALSE
  /\ vcode_keycode_table = InitialKeycodeTable
  /\ xkb = NoXkb

Init ==
  InitProgram /\ InitRunLoop /\ post = NoPost /\ tbl = NoLookup /\ posted_down = NoPostedDown

(***************************************************************************)
(* dispatch_event.c (Windows) is not among the sources.  These operators   *)
(* follow the specification: an event carries the modifier mask read with  *)
(* get_modifiers when it is built; a key press or release of a modifier    *)
(* key updates the mask before the event is built; KEY_TYPED events follow *)
(* their KEY_PRESSED, one per UTF-16 code unit; a pointer move with a      *)
(* button bit set is MOUSE_DRAGGED; a release at the coordinates of the    *)
(* press is followed by MOUSE_CLICKED.  Each returns the mask it leaves    *)
(* and the events it hands to the user's handler, in order.                *)
(***************************************************************************)
Event(type, m, code) == [type |-> type, mask |-> get_modifiers(m), code |-> code]

ModifierMaskOf(vk) ==
  CASE vk = VK_LSHIFT   -> MASK_SHIFT_L
    [] vk = VK_RSHIFT   -> MASK_SHIFT_R
    [] vk = VK_LCONTROL -> MASK_CTRL_L
    [] vk = VK_RCONTROL -> MASK_CTRL_R
    [] vk = VK_LMENU    -> MASK_ALT_L
    [] vk = VK_RMENU    -> MASK_ALT_R
    [] vk = VK_LWIN     -> MASK_META_L
    [] vk = VK_RWIN     -> MASK_META_R
    [] OTHER            -> 0

\* The key-typed events of a press that carry no key code.
key_typed_events_nocode(m, vcode, nchars) ==
  [i \in 1..nchars |-> Event("EVENT_KEY_TYPED", m, VC_UNDEFINED)]

key_typed_events(m, vcode, nchars) ==
  [i \in 1..nchars |-> Event("EVENT_KEY_TYPED", m, vcode)]

dispatch_key_press(m, kbhook) ==
  LET m1 == set_modifier_mask(m, ModifierMaskOf(kbhook.vkCode))
      vcode == keycode_to_vcode(kbhook.vkCode, kbhook.flags)
  IN [ mask |-> m1,
       events |-> << Event("EVENT_KEY_PRESSED", m1, vcode) >>
                  \o key_typed_events(m1, vcode, kbhook.nchars) ]

dispatch_key_release(m, kbhook) ==
  LET m1 == unset_modifier_mask(m, ModifierMaskOf(kbhook.vkCode))
      vcode == keycode_to_vcode(kbhook.vkCode, kbhook.flags)
  IN [ mask |-> m1, events |-> << Event("EVENT_KEY_RELEASED", m1, vcode) >> ]

dispatch_button_press(m, button) ==
  [ mask |-> m, events |-> << Event("EVENT_MOUSE_PRESSED", m, button) >> ]

dispatch_button_release(m, button, same_place) ==
  [ mask |-> m,
    events |-> << Event("EVENT_MOUSE_RELEASED", m, button) >>
               \o (IF same_place
                   THEN << Event("EVENT_MOUSE_CLICKED", m, button) >>
                   ELSE << >>) ]

AnyButtonMask ==
  MASK_BUTTON1 + MASK_BUTTON2 + MASK_BUTTON3 + MASK_BUTTON4 + MASK_BUTTON5

\* A pointer move that is never re-classified.
mouse_move_type_always_moved(m) == "EVENT_MOUSE_MOVED"

mouse_move_type(m) ==
  IF BitAnd(get_modifiers(m), AnyButtonMask) # 0
  THEN "EVENT_MOUSE_DRAGGED"
  ELSE "EVENT_MOUSE_MOVED"

dispatch_mouse_move(m) ==
  [ mask |-> m, events |-> << Event(mouse_move_type(m), m, MOUSE_NOBUTTON) >> ]

dispatch_mouse_wheel(m, direction) ==
  [ mask |-> m, events |-> << Event("EVENT_MOUSE_WHEEL", m, direction) >> ]

(***************************************************************************)
(* The low-level hook callbacks.  A callback is the sequence of calls its  *)
(* switch makes for the message, run in order against the modifier mask,   *)
(* followed by the decision to call CallNextHookEx.                        *)
(***************************************************************************)
WHEEL_VERTICAL_DIRECTION == 3
WHEEL_HORIZONTAL_DIRECTION == 4

Call(op, arg) == [op |-> op, arg |-> arg]

\* keyboard_hook_event_proc: switch (wParam)
keyboard_hook_calls(wParam) ==
  CASE wParam \in {"WM_KEYDOWN", "WM_SYSKEYDOWN"} -> << Call("dispatch_key_press", 0) >>
    [] wParam \in {"WM_KEYUP", "WM_SYSKEYUP"}     -> << Call("dispatch_key_release", 0) >>
    [] OTHER                                      -> << >>

\* A button-down case with the two statements in the other order.
button_down_calls_dispatch_first(mask, button) ==
  << Call("dispatch_button_press", button), Call("set_modifier_mask", mask) >>

\* set_modifier_mask(MASK_BUTTONn); consumed = dispatch_button_press(mshook, MOUSE_BUTTONn);
button_down_calls(mask, button) ==
  << Call("set_modifier_mask", mask), Call("dispatch_button_press", button) >>

\* unset_modifier_mask(MASK_BUTTONn); consumed = dispatch_button_release(mshook, MOUSE_BUTTONn);
button_up_calls(mask, button) ==
  << Call("unset_modifier_mask", mask), Call("dispatch_button_release", button) >>

\* mouse_hook_event_proc: switch (wParam); hiword is HIWORD(mshook->mouseData)
mouse_hook_calls(wParam, hiword) ==
  CASE wParam = "WM_LBUTTONDOWN" -> button_down_calls(MASK_BUTTON1, MOUSE_BUTTON1)
    [] wParam = "WM_RBUTTONDOWN" -> button_down_calls(MASK_BUTTON2, MOUSE_BUTTON2)
    [] wParam = "WM_MBUTTONDOWN" -> button_down_calls(MASK_BUTTON3, MOUSE_BUTTON3)
    [] wParam \in {"WM_XBUTTONDOWN", "WM_NCXBUTTONDOWN"} ->
         IF hiword = XBUTTON1 THEN button_down_calls(MASK_BUTTON4, MOUSE_BUTTON4)
         ELSE IF hiword = XBUTTON2 THEN button_down_calls(MASK_BUTTON5, MOUSE_BUTTON5)
         ELSE (IF hiword = 4 THEN << Call("set_modifier_mask", MOUSE_BUTTON4) >>
               ELSE IF hiword = 5 THEN << Call("set_modifier_mask", MOUSE_BUTTON5) >>
               ELSE << >>)
              \o << Call("dispatch_button_press", hiword) >>
    [] wParam = "WM_LBUTTONUP" -> button_up_calls(MASK_BUTTON1, MOUSE_BUTTON1)
    [] wParam = "WM_RBUTTONUP" -> button_up_calls(MASK_BUTTON2, MOUSE_BUTTON2)
    [] wParam = "WM_MBUTTONUP" -> button_up_calls(MASK_BUTTON3, MOUSE_BUTTON3)
    [] wParam \in {"WM_XBUTTONUP", "WM_NCXBUTTONUP"} ->
         IF hiword = XBUTTON1 THEN button_up_calls(MASK_BUTTON4, MOUSE_BUTTON4)
         ELSE IF hiword = XBUTTON2 THEN button_up_calls(MASK_BUTTON5, MOUSE_BUTTON5)
         ELSE (IF hiword = 4 THEN << Call("unset_modifier_mask", MOUSE_BUTTON4) >>
               ELSE IF hiword = 5 THEN << Call("unset_modifier_mask", MOUSE_BUTTON5) >>
               ELSE << >>)
              \o << Call("dispatch_button_release", MOUSE_BUTTON5) >>
    [] wParam = "WM_MOUSEMOVE"   -> << Call("dispatch_mouse_move", 0) >>
    [] wParam = "WM_MOUSEWHEEL"  -> << Call("dispatch_mouse_wheel", WHEEL_VERTICAL_DIRECTION) >>
    [] wParam = "WM_MOUSEHWHEEL" -> << Call("dispatch_mouse_wheel", WHEEL_HORIZONTAL_DIRECTION) >>
    [] OTHER                     -> << >>

\* One call against mask m: the mask it leaves and the events it dispatches.
exec_call(c, m, in) ==
  CASE c.op = "set_modifier_mask"       -> [mask |-> set_modifier_mask(m, c.arg), events |-> << >>]
    [] c.op = "unset_modifier_mask"     -> [mask |-> unset_modifier_mask(m, c.arg), events |-> << >>]
    [] c.op = "dispatch_key_press"      -> dispatch_key_press(m, in.kbhook)
    [] c.op = "dispatch_key_release"    -> dispatch_key_release(m, in.kbhook)
    [] c.op = "dispatch_button_press"   -> dispatch_button_press(m, c.arg)
    [] c.op = "dispatch_button_release" -> dispatch_button_release(m, c.arg, in.same_place)
    [] c.op = "dispatch_mouse_move"     -> dispatch_mouse_move(m)
    [] c.op = "dispatch_mouse_wheel"    -> dispatch_mouse_wheel(m, c.arg)

\* The callback's state after call c returned r.  Each event is logged with
\* what get_modifiers returns while the user's handler runs on it.
after_call(st, c, r) ==
  [ mask |-> r.mask,
    events |-> st.events
               \o [i \in 1..Len(r.events) |->
                     [ type |-> r.events[i].type, mask |-> r.events[i].mask,
                       code |-> r.events[i].code, seen |-> get_modifiers(r.mask) ]],
    dispatched |-> st.dispatched \/ c.op \notin {"set_modifier_mask", "unset_modifier_mask"} ]

\* The calls in order.
RECURSIVE exec_calls(_, _, _)
exec_calls(calls, st, in) ==
  IF calls = << >> THEN st
  ELSE exec_calls(Tail(calls),
                  after_call(st, Head(calls), exec_call(Head(calls), st.mask, in)),
                  in)

\* The test with nCode left out.
CallsNextHook_ignores_nCode(nCode, consumed) == ~consumed

\* if (nCode < 0 || !consumed) hook_result = CallNextHookEx(...)
CallsNextHook(nCode, consumed) == nCode < 0 \/ ~consumed

\* LRESULT hook_result = -1, overwritten by what CallNextHookEx returns.
hook_result_of(called_next, next_result) == IF called_next THEN next_result ELSE -1

\* The body both callbacks share.  consume is the verdict of the user's handler,
\* which the dispatch functions return; next_result is what CallNextHookEx returns.
hook_event_proc(proc, calls, nCode, in, consume, next_result) ==
  \E st \in {exec_calls(calls, [mask |-> modifier_mask, events |-> << >>, dispatched |-> FALSE], in)} :
  LET consumed == st.dispatched /\ consume
      called_next == CallsNextHook(nCode, consumed)
  IN /\ modifier_mask' = st.mask
     /\ cb' = [ proc |-> proc, nCode |-> nCode, handled |-> calls # << >>,
                consumed |-> consumed, called_next |-> called_next,
                next_result |-> IF called_next THEN next_result ELSE 0,
                hook_result |-> hook_result_of(called_next, next_result),
                events |-> st.events, mask_after |-> st.mask ]
     /\ init_poll' = NoPoll

keyboard_hook_event_proc(nCode, wParam, kbhook, consume, next_result) ==
  /\ pc = "loop"
  /\ "keyboard" \in os_hooks
  /\ hook_event_proc("keyboard", keyboard_hook_calls(wParam), nCode,
                     [kbhook |-> kbhook, same_place |-> FALSE], consume, next_result)
  /\ UNCHANGED << session_vars, monitor_vars, stop_vars, msg_queue, quit_flag, tbl >>
  /\ UNCHANGED synthesis_vars

mouse_hook_event_proc(nCode, wParam, hiword, same_place, consume, next_result) ==
  /\ pc = "loop"
  /\ "mouse" \in os_hooks
  /\ hook_event_proc("mouse", mouse_hook_calls(wParam, hiword), nCode,
                     [kbhook |-> [vkCode |-> 0, flags |-> 0, nchars |-> 0], same_place |-> same_place],
                     consume, next_result)
  /\ UNCHANGED << session_vars, monitor_vars, stop_vars, msg_queue, quit_flag, tbl >>
  /\ UNCHANGED synthesis_vars

(***************************************************************************)
(* run, the message loop and hook_stop.                                    *)
(***************************************************************************)
\* initialize_modifiers: the GetKeyState polls in order, each with the mask it sets.
keyboard_polls ==
  << <<VK_LSHIFT, MASK_SHIFT_L>>, <<VK_RSHIFT, MASK_SHIFT_R>>,
     <<VK_LCONTROL, MASK_CTRL_L>>, <<VK_RCONTROL, MASK_CTRL_R>>,
     <<VK_LMENU, MASK_ALT_L>>, <<VK_RMENU, MASK_ALT_R>>,
     <<VK_LWIN, MASK_META_L>>, <<VK_RWIN, MASK_META_R>>,
     <<VK_NUMLOCK, MASK_NUM_LOCK>>, <<VK_CAPITAL, MASK_CAPS_LOCK>>,
     <<VK_SCROLL, MASK_SCROLL_LOCK>> >>

mouse_polls ==
  << <<VK_LBUTTON, MASK_BUTTON1>>, <<VK_RBUTTON, MASK_BUTTON2>>,
     <<VK_MBUTTON, MASK_BUTTON3>>, <<VK_XBUTTON1, MASK_BUTTON4>>,
     <<VK_XBUTTON2, MASK_BUTTON5>> >>

RECURSIVE poll_modifiers(_, _, _)
poll_modifiers(polls, held, m) ==
  IF polls = << >> THEN m
  ELSE poll_modifiers(Tail(polls), held,
                      IF Head(polls)[1] \in held
                      THEN set_modifier_mask(m, Head(polls)[2])
                      ELSE m)

\* initialize_modifiers(keyboard, mouse) on modifier_mask m, with the keys in
\* held down.  Its first statement clears current_modifiers, which is another
\* variable than the one set_modifier_mask writes.
initialize_modifiers(m, keyboard, mouse, held) ==
  poll_modifiers((IF keyboard THEN keyboard_polls ELSE << >>)
                   \o (IF mouse THEN mouse_polls ELSE << >>),
                 held, m)

\* CreateWindowEx: a fresh handle, or NULL when the call fails.
CreateWindowEx(windows, ok) ==
  LET free == (1..MaxWindows) \ windows
  IN IF ok /\ free # {} THEN CHOOSE h \in free : \A g \in free : h <= g ELSE NULL

\* create_invisible_window(): its return value and the statics it leaves.
create_invisible_window(env) ==
  IF ~invisible_win_class_initialized /\ ~env.register_ok
  THEN [ ret |-> 0, class |-> invisible_win_class_initialized,
         hwnd |-> invisible_win_hwnd, windows |-> os_windows ]
  ELSE LET h == CreateWindowEx(os_windows, env.create_ok)
       IN [ ret |-> IF h = NULL THEN 0 ELSE 1, class |-> TRUE, hwnd |-> h,
            windows |-> IF h = NULL THEN os_windows ELSE os_windows \cup {h} ]

\* UnhookWindowsHookEx(keyboard_event_hhook) and (mouse_event_hhook): of the
\* hooks that were installed with the handle hhook, those still installed.
unhooked(hooks, hhook, khook, mhook) ==
  hooks \ ((IF khook = hhook THEN {"keyboard"} ELSE {})
           \cup (IF mhook = hhook THEN {"mouse"} ELSE {}))

\* unregister_running_hooks(): the hooks of the hook thread still installed
\* after it.  A handle that is NULL is skipped.
unregister_running_hooks(hooks, khook, mhook) == unhooked(hooks, HHook, khook, mhook)

\* run returns st: nothing is reset on the way out.
run_returns(st) ==
  /\ pc' = "idle"
  /\ run_ret' = st
  /\ ended_by_stop' = stop_done
  /\ stop_armed' = FALSE
  /\ stop_done' = FALSE

\* The tail of run: unregister_running_hooks(); dispatch_hook_disable(); return status;
run_epilogue(status, hooks, khook, mhook, events) ==
  /\ os_hooks' = unregister_running_hooks(hooks, khook, mhook)
  /\ other' = [ other EXCEPT !.hooks = unhooked(@, OtherHHook, khook, mhook) ]
  /\ keyboard_event_hhook' = NULL
  /\ mouse_event_hhook' = NULL
  /\ hook_events' = events \o << "EVENT_HOOK_DISABLED" >>
  /\ run_returns(status)

\* run(run_keyboard_hook, run_mouse_hook) up to its message loop, or to its
\* return when it does not get there.  env is what the OS answers.
run(run_keyboard_hook, run_mouse_hook, env) ==
  /\ pc = "idle"
  /\ hook_thread_id' = HookThread
  /\ LET inst == IF hInst = NULL /\ env.module_ok THEN Module ELSE hInst
         w == create_invisible_window(env)
         khook == IF run_keyboard_hook
                  THEN (IF env.keyboard_ok THEN HHook ELSE NULL)
                  ELSE keyboard_event_hhook
         mhook == IF run_mouse_hook
                  THEN (IF env.mouse_ok THEN HHook ELSE NULL)
                  ELSE mouse_event_hhook
         hooks == os_hooks
                    \cup (IF run_keyboard_hook /\ env.keyboard_ok THEN {"keyboard"} ELSE {})
                    \cup (IF run_mouse_hook /\ env.mouse_ok THEN {"mouse"} ELSE {})
     IN /\ hInst' = inst
        /\ IF inst = NULL
           THEN /\ run_returns(UIOHOOK_ERROR_GET_MODULE_HANDLE)
                /\ hook_events' = << >>
                /\ UNCHANGED << keyboard_event_hhook, mouse_event_hhook,
                                invisible_win_hwnd, invisible_win_class_initialized,
                                current_modifiers, modifier_mask, os_hooks,
                                os_windows, init_poll, other >>
           ELSE /\ invisible_win_class_initialized' = w.class
                /\ invisible_win_hwnd' = w.hwnd
                /\ os_windows' = w.windows
                /\ IF w.ret = 0 \/ w.hwnd = NULL
                   THEN /\ run_returns(UIOHOOK_ERROR_CREATE_INVISIBLE_WINDOW)
                        /\ hook_events' = << >>
                        /\ UNCHANGED << keyboard_event_hhook, mouse_event_hhook,
                                        current_modifiers, modifier_mask, os_hooks,
                                        init_poll, other >>
                   ELSE IF (~run_keyboard_hook \/ khook # NULL)
                           /\ (~run_mouse_hook \/ mhook # NULL)
                        THEN /\ keyboard_event_hhook' = khook
                             /\ mouse_event_hhook' = mhook
                             /\ os_hooks' = hooks
                             /\ current_modifiers' = 0
                             /\ modifier_mask' = initialize_modifiers(modifier_mask,
                                                   run_keyboard_hook, run_mouse_hook, env.held)
                             /\ init_poll' = [fresh |-> TRUE, keyboard |-> run_keyboard_hook,
                                              mouse |-> run_mouse_hook, held |-> env.held]
                             /\ hook_events' = << "EVENT_HOOK_ENABLED" >>
                             /\ pc' = "loop"
                             /\ run_ret' = NoStatus
                             /\ UNCHANGED << ended_by_stop, stop_armed, stop_done, other >>
                        ELSE /\ run_epilogue(UIOHOOK_ERROR_SET_WINDOWS_HOOK_EX,
                                             hooks, khook, mhook, << >>)
                             /\ UNCHANGED << current_modifiers, modifier_mask, init_poll >>
  /\ cb' = NoCallback
  /\ UNCHANGED << monitor_vars, msg_queue, quit_flag, stop_pc, stop_status, tbl >>
  /\ UNCHANGED synthesis_vars

Min(S) == CHOOSE x \in S : \A y \in S : x <= y

\* enumerate_displays(): left and top restart at 0 and fall to the smallest
\* rcMonitor.left / rcMonitor.top that is below them.
\* An enumeration that starts from the left and top it finds.
enumerate_displays_without_reset(monitors) ==
  [ left |-> Min({left} \cup {r[1] : r \in monitors}),
    top  |-> Min({top} \cup {r[2] : r \in monitors}) ]

enumerate_displays(monitors) ==
  [ left |-> Min({0} \cup {r[1] : r \in monitors}),
    top  |-> Min({0} \cup {r[2] : r \in monitors}) ]

Message(hwnd, message) == [hwnd |-> hwnd, message |-> message]

\* The messages of q that are not for window hwnd.
RECURSIVE without_window(_, _)
without_window(q, hwnd) ==
  IF q = << >> THEN << >>
  ELSE IF Head(q).hwnd = hwnd THEN without_window(Tail(q), hwnd)
  ELSE << Head(q) >> \o without_window(Tail(q), hwnd)

\* GetMessage on the hook thread: the oldest posted message, or the WM_QUIT
\* that PostQuitMessage asked for once nothing is posted; 0 for WM_QUIT.
GetMessageOf(queue, quit) ==
  IF queue # << >>
  THEN [ ret |-> IF Head(queue).message = "WM_QUIT" THEN 0 ELSE 1,
         msg |-> Head(queue), queue |-> Tail(queue), quit |-> quit ]
  ELSE [ ret |-> 0, msg |-> Message(NULL, "WM_QUIT"), queue |-> << >>, quit |-> FALSE ]

\* ... on the hook thread
GetMessage == GetMessageOf(msg_queue, quit_flag)

\* A loop that also goes on at WM_QUIT.
LoopContinues_on_quit(ret) == ret >= 0

\* while (GetMessage(&message, (HWND) NULL, 0, 0) > 0)
LoopContinues(ret) == ret > 0

\* One turn of the message loop of run: GetMessage, then either
\* TranslateMessage / DispatchMessage (which runs WndProc for a message of a
\* window that exists) or the end of the loop and the tail of run.
message_loop ==
  /\ pc = "loop"
  /\ msg_queue # << >> \/ quit_flag
  /\ LET g == GetMessage
         to_window == g.msg.hwnd # NULL /\ g.msg.hwnd \in os_windows
     IN IF LoopContinues(g.ret)
        THEN /\ IF to_window /\ g.msg.message = "WM_CLOSE"
                THEN \* WndProc WM_CLOSE: DestroyWindow, whose WM_DESTROY calls PostQuitMessage
                     /\ os_windows' = os_windows \ {g.msg.hwnd}
                     /\ msg_queue' = without_window(g.queue, g.msg.hwnd)
                     /\ quit_flag' = TRUE
                     /\ UNCHANGED << monitors_enumerated, left, top >>
                ELSE IF to_window /\ g.msg.message = "WM_DISPLAYCHANGE"
                THEN \* WndProc WM_DISPLAYCHANGE: enumerate_displays()
                     /\ left' = enumerate_displays(os_monitors).left
                     /\ top' = enumerate_displays(os_monitors).top
                     /\ monitors_enumerated' = TRUE
                     /\ msg_queue' = g.queue
                     /\ quit_flag' = g.quit
                     /\ UNCHANGED os_windows
                ELSE /\ msg_queue' = g.queue
                     /\ quit_flag' = g.quit
                     /\ UNCHANGED << os_windows, monitors_enumerated, left, top >>
             /\ UNCHANGED << pc, run_ret, hook_events, keyboard_event_hhook,
                             mouse_event_hhook, os_hooks, ended_by_stop,
                             stop_armed, stop_done, other >>
        ELSE /\ msg_queue' = g.queue
             /\ quit_flag' = g.quit
             /\ run_epilogue(UIOHOOK_SUCCESS, os_hooks, keyboard_event_hhook,
                             mouse_event_hhook, hook_events)
             /\ UNCHANGED << os_windows, monitors_enumerated, left, top >>
  /\ UNCHANGED << hInst, hook_thread_id, invisible_win_hwnd,
                  invisible_win_class_initialized, current_modifiers,
                  modifier_mask, os_monitors, stop_pc, stop_status, init_poll,
                  cb, tbl, helper_vars >>
  /\ UNCHANGED synthesis_vars

\* PostMessage(hwnd, ...) from the thread in hook_stop.  With a NULL hwnd the
\* message goes to the calling thread's own queue and the call succeeds.
\* A message for a window goes to the queue of the thread that created it.
PostMessage_ok(hwnd) ==
  \/ hwnd = NULL
  \/ /\ hwnd \in os_windows
     /\ Len(IF hwnd \in other.hwnds THEN other.queue ELSE msg_queue) < MaxQueue

\* PostThreadMessage(idThread, ...): the thread must exist and have room.
PostThreadMessage_ok(idThread) ==
  \/ idThread = HookThread /\ Len(msg_queue) < MaxQueue
  \/ idThread = AppThread /\ Len(other.queue) < MaxQueue

\* hook_stop, first half: PostMessage(invisible_win_hwnd, WM_CLOSE, 0, 0);
\* when it fails hook_stop returns UIOHOOK_FAILURE.
hook_stop_post_close ==
  /\ stop_pc = "idle"
  /\ IF PostMessage_ok(invisible_win_hwnd)
     THEN /\ msg_queue' = IF invisible_win_hwnd = NULL \/ invisible_win_hwnd \in other.hwnds
                          THEN msg_queue
                          ELSE Append(msg_queue, Message(invisible_win_hwnd, "WM_CLOSE"))
          /\ other' = IF invisible_win_hwnd \in other.hwnds
                      THEN [ other EXCEPT !.queue =
                               Append(@, Message(invisible_win_hwnd, "WM_CLOSE")) ]
                      ELSE other
          /\ stop_pc' = "close_posted"
          /\ stop_armed' = (pc = "loop" /\ invisible_win_hwnd # NULL
                                        /\ invisible_win_hwnd \notin other.hwnds)
          /\ UNCHANGED stop_status
     ELSE /\ stop_status' = UIOHOOK_FAILURE
          /\ stop_armed' = FALSE
          /\ UNCHANGED << msg_queue, stop_pc, other >>
  /\ UNCHANGED << run_vars, monitor_vars, modifier_mask, quit_flag,
                  stop_done, init_poll, cb, tbl, helper_vars >>
  /\ UNCHANGED synthesis_vars

\* hook_stop, second half: PostThreadMessage(hook_thread_id, WM_QUIT, ...) and return.
hook_stop_post_quit ==
  /\ stop_pc = "close_posted"
  /\ stop_pc' = "idle"
  /\ IF PostThreadMessage_ok(hook_thread_id)
     THEN /\ msg_queue' = IF hook_thread_id = HookThread
                          THEN Append(msg_queue, Message(NULL, "WM_QUIT"))
                          ELSE msg_queue
          /\ other' = IF hook_thread_id = HookThread THEN other
                      ELSE [ other EXCEPT !.queue = Append(@, Message(NULL, "WM_QUIT")) ]
          /\ stop_status' = UIOHOOK_SUCCESS
          /\ stop_done' = (stop_armed /\ hook_thread_id = HookThread)
     ELSE /\ stop_status' = UIOHOOK_FAILURE
          /\ UNCHANGED << msg_queue, stop_done, other >>
  /\ stop_armed' = FALSE
  /\ UNCHANGED << run_vars, monitor_vars, modifier_mask, quit_flag,
                  init_poll, cb, tbl, helper_vars >>
  /\ UNCHANGED synthesis_vars

(***************************************************************************)
(* run called by a second thread.  The statics of input_hook.c are shared: *)
(* the call writes hook_thread_id, hInst, the window handle and the two    *)
(* hook handles as the hook thread's call does, and its tail unhooks       *)
(* whatever the two handles name at that moment.                           *)
(***************************************************************************)
\* The tail of run on the other thread, st being what that call leaves else.
other_run_epilogue(status, st, hooks, khook, mhook) ==
  /\ os_hooks' = unregister_running_hooks(os_hooks, khook, mhook)
  /\ keyboard_event_hhook' = NULL
  /\ mouse_event_hhook' = NULL
  /\ other' = [ st EXCEPT !.pc = "idle", !.ret = status,
                          !.events = Append(@, "EVENT_HOOK_DISABLED"),
                          !.hooks = unhooked(hooks, OtherHHook, khook, mhook) ]

\* run(run_keyboard_hook, run_mouse_hook) called by the other thread, up to
\* its message loop, or to its return when it does not get there.
other_run(run_keyboard_hook, run_mouse_hook, env) ==
  /\ other.pc = "idle"
  /\ hook_thread_id' = AppThread
  /\ LET inst == IF hInst = NULL /\ env.module_ok THEN Module ELSE hInst
         w == create_invisible_window(env)
         khook == IF run_keyboard_hook
                  THEN (IF env.keyboard_ok THEN OtherHHook ELSE NULL)
                  ELSE keyboard_event_hhook
         mhook == IF run_mouse_hook
                  THEN (IF env.mouse_ok THEN OtherHHook ELSE NULL)
                  ELSE mouse_event_hhook
         hooks == other.hooks
                    \cup (IF run_keyboard_hook /\ env.keyboard_ok THEN {"keyboard"} ELSE {})
                    \cup (IF run_mouse_hook /\ env.mouse_ok THEN {"mouse"} ELSE {})
     IN /\ hInst' = inst
        /\ IF inst = NULL
           THEN /\ other' = [ other EXCEPT !.ret = UIOHOOK_ERROR_GET_MODULE_HANDLE,
                                            !.events = << >> ]
                /\ UNCHANGED << keyboard_event_hhook, mouse_event_hhook,
                                invisible_win_hwnd, invisible_win_class_initialized,
                                current_modifiers, modifier_mask, os_hooks,
                                os_windows, init_poll >>
           ELSE /\ invisible_win_class_initialized' = w.class
                /\ invisible_win_hwnd' = w.hwnd
                /\ os_windows' = w.windows
                /\ IF w.ret = 0 \/ w.hwnd = NULL
                   THEN /\ other' = [ other EXCEPT
                                        !.ret = UIOHOOK_ERROR_CREATE_INVISIBLE_WINDOW,
                                        !.events = << >> ]
                        /\ UNCHANGED << keyboard_event_hhook, mouse_event_hhook,
                                        current_modifiers, modifier_mask, os_hooks,
                                        init_poll >>
                   ELSE IF (~run_keyboard_hook \/ khook # NULL)
                           /\ (~run_mouse_hook \/ mhook # NULL)
                        THEN /\ keyboard_event_hhook' = khook
                             /\ mouse_event_hhook' = mhook
                             /\ current_modifiers' = 0
                             /\ modifier_mask' = initialize_modifiers(modifier_mask,
                                                   run_keyboard_hook, run_mouse_hook, env.held)
                             /\ init_poll' = [fresh |-> TRUE, keyboard |-> run_keyboard_hook,
                                              mouse |-> run_mouse_hook, held |-> env.held]
                             /\ other' = [ other EXCEPT !.pc = "loop", !.ret = NoStatus,
                                                        !.events = << "EVENT_HOOK_ENABLED" >>,
                                                        !.hooks = hooks,
                                                        !.hwnds = @ \cup {w.hwnd} ]
                             /\ UNCHANGED os_hooks
                        ELSE /\ other_run_epilogue(UIOHOOK_ERROR_SET_WINDOWS_HOOK_EX,
                                                   [ other EXCEPT !.events = << >>,
                                                                  !.hwnds = @ \cup {w.hwnd} ],
                                                   hooks, khook, mhook)
                             /\ UNCHANGED << current_modifiers, modifier_mask, init_poll >>
  /\ UNCHANGED << pc, run_ret, hook_events, ended_by_stop, stop_vars, monitor_vars,
                  msg_queue, quit_flag, cb, tbl, helper_vars >>
  /\ UNCHANGED synthesis_vars

\* One turn of the message loop of run on the other thread.
other_message_loop ==
  /\ other.pc = "loop"
  /\ other.queue # << >> \/ other.quit
  /\ LET g == GetMessageOf(other.queue, other.quit)
         to_window == g.msg.hwnd # NULL /\ g.msg.hwnd \in os_windows
     IN IF LoopContinues(g.ret)
        THEN /\ IF to_window /\ g.msg.message = "WM_CLOSE"
                THEN /\ os_windows' = os_windows \ {g.msg.hwnd}
                     /\ other' = [ other EXCEPT !.queue = without_window(g.queue, g.msg.hwnd),
                                                !.quit = TRUE,
                                                !.hwnds = @ \ {g.msg.hwnd} ]
                     /\ UNCHANGED << monitors_enumerated, left, top >>
                ELSE IF to_window /\ g.msg.message = "WM_DISPLAYCHANGE"
                THEN /\ left' = enumerate_displays(os_monitors).left
                     /\ top' = enumerate_displays(os_monitors).top
                     /\ monitors_enumerated' = TRUE
                     /\ other' = [ other EXCEPT !.queue = g.queue, !.quit = g.quit ]
                     /\ UNCHANGED os_windows
                ELSE /\ other' = [ other EXCEPT !.queue = g.queue, !.quit = g.quit ]
                     /\ UNCHANGED << os_windows, monitors_enumerated, left, top >>
             /\ UNCHANGED << keyboard_event_hhook, mouse_event_hhook, os_hooks >>
        ELSE /\ other_run_epilogue(UIOHOOK_SUCCESS,
                                   [ other EXCEPT !.queue = g.queue, !.quit = g.quit ],
                                   other.hooks, keyboard_event_hhook, mouse_event_hhook)
             /\ UNCHANGED << os_windows, monitors_enumerated, left, top >>
  /\ UNCHANGED << pc, run_ret, hook_events, hInst, hook_thread_id, invisible_win_hwnd,
                  invisible_win_class_initialized, current_modifiers, ended_by_stop,
                  modifier_mask, os_monitors, msg_queue, quit_flag, stop_vars,
                  init_poll, cb, tbl, helper_vars >>
  /\ UNCHANGED synthesis_vars

(***************************************************************************)
(* Event synthesis on Windows: hook_post_event and hook_post_text.         *)
(* A call is one step; what it leaves is kept in post: the event, the      *)
(* status returned and the SendInput calls made, in order, each with what  *)
(* the OS answered.                                                        *)
(***************************************************************************)
\* rcMonitor of a monitor: <<left, top, right, bottom>>
MonitorRect(l, t, r, b) == << l, t, r, b >>

Max(S) == CHOOSE x \in S : \A y \in S : x >= y

\* GetSystemMetrics(SM_XVIRTUALSCREEN) / (SM_YVIRTUALSCREEN): the origin of
\* the bounding rectangle of all monitors.
VirtualScreenLeft(monitors) == Min({r[1] : r \in monitors})
VirtualScreenTop(monitors) == Min({r[2] : r \in monitors})

\* GetSystemMetrics(SM_CXVIRTUALSCREEN) / (SM_CYVIRTUALSCREEN)
VirtualScreenWidth(monitors) == Max({r[3] : r \in monitors}) - VirtualScreenLeft(monitors)
VirtualScreenHeight(monitors) == Max({r[4] : r \in monitors}) - VirtualScreenTop(monitors)

\* abs() of <stdlib.h>
abs(v) == IF v < 0 THEN 0 - v ELSE v

\* MulDiv(nNumber, nNumerator, nDenominator): the 64-bit product divided and
\* rounded to the nearest integer, halves away from zero; -1 on a zero
\* denominator or a quotient that does not fit 32 bits.
MulDiv(nNumber, nNumerator, nDenominator) ==
  IF nDenominator = 0 THEN -1
  ELSE LET p == nNumber * nNumerator
           q == (abs(p) + abs(nDenominator) \div 2) \div abs(nDenominator)
       IN IF q > 2147483647 THEN -1
          ELSE IF (p < 0) # (nDenominator < 0) THEN 0 - q ELSE q

\* return MulDiv((int) coordinate, MAX_WINDOWS_COORD_VALUE, screen_size);
get_absolute_coordinate(coordinate, screen_size) ==
  MulDiv(coordinate, MAX_WINDOWS_COORD_VALUE, screen_size)

\* get_largest_negative_coordinates() on the cache: it enumerates the
\* displays when nobody has, and returns the cached left and top.
get_largest_negative_coordinates(cache, monitors) ==
  IF ~cache.enumerated
  THEN [ enumerated |-> TRUE, left |-> enumerate_displays(monitors).left,
         top |-> enumerate_displays(monitors).top, wrote |-> TRUE ]
  ELSE [ enumerated |-> TRUE, left |-> cache.left, top |-> cache.top,
         wrote |-> cache.wrote ]

\* normalize_coordinates(x, y) with lnc what get_largest_negative_coordinates
\* returned; screen_width and screen_height are uint16_t.
normalize_coordinates(x, y, lnc, monitors) ==
  [ x |-> get_absolute_coordinate(x + abs(lnc.left), VirtualScreenWidth(monitors) % U16),
    y |-> get_absolute_coordinate(y + abs(lnc.top), VirtualScreenHeight(monitors) % U16) ]

Input(kind, code, flags, dx, dy, n, ok) ==
  [ kind |-> kind, code |-> code, flags |-> flags, dx |-> dx, dy |-> dy,
    n |-> n, ok |-> ok ]

\* event->mask & MASK_ALT, where MASK_ALT expands to MASK_ALT_L | MASK_ALT_R
\* without parentheses: (event->mask & MASK_ALT_L) | MASK_ALT_R
mask_and_MASK_ALT(mask) == BitOr(BitAnd(mask, MASK_ALT_L), MASK_ALT_R)

\* map_keyboard_event without the test of the looked-up code.
map_keyboard_event_unchecked(event, extended) ==
  [ status |-> UIOHOOK_SUCCESS,
    input |-> Input("key", vcode_to_keycode(event.keycode) % U16,
                    (IF event.type = "EVENT_KEY_RELEASED" THEN {"KEYEVENTF_KEYUP"} ELSE {})
                      \cup (IF mask_and_MASK_ALT(event.mask) # 0 THEN {"KF_ALTDOWN"} ELSE {})
                      \cup (IF extended THEN {"KEYEVENTF_EXTENDEDKEY"} ELSE {}),
                    0, 0, 1, FALSE) ]

\* map_keyboard_event(event, input); extended is HIBYTE(MapVirtualKeyW(wVk,
\* MAPVK_VK_TO_VSC_EX)) # 0.
map_keyboard_event(event, extended) ==
  IF event.type \notin {"EVENT_KEY_PRESSED", "EVENT_KEY_RELEASED"}
  THEN [ status |-> UIOHOOK_FAILURE, input |-> Input("none", 0, {}, 0, 0, 0, FALSE) ]
  ELSE IF vcode_to_keycode(event.keycode) % U16 = 0
  THEN [ status |-> UIOHOOK_FAILURE, input |-> Input("none", 0, {}, 0, 0, 0, FALSE) ]
  ELSE map_keyboard_event_unchecked(event, extended)

\* mouseData of an X button
x_button_data(button) ==
  IF button = MOUSE_BUTTON4 THEN XBUTTON1
  ELSE IF button = MOUSE_BUTTON5 THEN XBUTTON2
  ELSE button - 3

\* dwFlags of a button event; down is TRUE for a press
button_flags(button, down) ==
  IF button = MOUSE_BUTTON1 THEN (IF down THEN {"MOUSEEVENTF_LEFTDOWN"} ELSE {"MOUSEEVENTF_LEFTUP"})
  ELSE IF button = MOUSE_BUTTON2 THEN (IF down THEN {"MOUSEEVENTF_RIGHTDOWN"} ELSE {"MOUSEEVENTF_RIGHTUP"})
  ELSE IF button = MOUSE_BUTTON3 THEN (IF down THEN {"MOUSEEVENTF_MIDDLEDOWN"} ELSE {"MOUSEEVENTF_MIDDLEUP"})
  ELSE (IF down THEN {"MOUSEEVENTF_XDOWN"} ELSE {"MOUSEEVENTF_XUP"})

PressTypes == {"EVENT_MOUSE_PRESSED", "EVENT_MOUSE_PRESSED_IGNORE_COORDS"}
ReleaseTypes == {"EVENT_MOUSE_RELEASED", "EVENT_MOUSE_RELEASED_IGNORE_COORDS"}
MoveTypes == {"EVENT_MOUSE_DRAGGED", "EVENT_MOUSE_MOVED", "EVENT_MOUSE_MOVED_RELATIVE_TO_CURSOR"}
WinMouseTypes == PressTypes \cup ReleaseTypes \cup MoveTypes \cup {"EVENT_MOUSE_WHEEL"}

\* map_mouse_event: the switch on the event type, nc the normalized
\* coordinates (zero for a wheel event, whose input comes from calloc);
\* mouseData is kept as the signed value of its 32 bits.
map_mouse_switch(event, nc) ==
  CASE event.type \in PressTypes \cup ReleaseTypes ->
         IF event.button = MOUSE_NOBUTTON
         THEN [ status |-> UIOHOOK_FAILURE, input |-> Input("none", 0, {}, 0, 0, 0, FALSE) ]
         ELSE [ status |-> UIOHOOK_SUCCESS,
                input |-> Input("mouse",
                                IF event.button \in {MOUSE_BUTTON1, MOUSE_BUTTON2, MOUSE_BUTTON3}
                                THEN 0 ELSE x_button_data(event.button),
                                button_flags(event.button, event.type \in PressTypes),
                                nc.x, nc.y, 1, FALSE) ]
    [] event.type = "EVENT_MOUSE_WHEEL" ->
         [ status |-> UIOHOOK_SUCCESS,
           input |-> IF event.direction = WHEEL_HORIZONTAL_DIRECTION
                     THEN Input("mouse", 0 - event.rotation, {"MOUSEEVENTF_HWHEEL"}, 0, 0, 1, FALSE)
                     ELSE Input("mouse", event.rotation, {"MOUSEEVENTF_WHEEL"}, 0, 0, 1, FALSE) ]
    [] event.type \in MoveTypes ->
         [ status |-> UIOHOOK_SUCCESS,
           input |-> Input("mouse", 0,
                           {"MOUSEEVENTF_MOVE", "MOUSEEVENTF_ABSOLUTE", "MOUSEEVENTF_VIRTUALDESK"},
                           nc.x, nc.y, 1, FALSE) ]
    [] OTHER -> [ status |-> UIOHOOK_FAILURE, input |-> Input("none", 0, {}, 0, 0, 0, FALSE) ]

\* The monitor helper's statics as one call of hook_post_event finds them.
MonitorCache ==
  [ enumerated |-> monitors_enumerated, left |-> left, top |-> top, wrote |-> FALSE ]

\* if (status == UIOHOOK_SUCCESS && !SendInput(1, input, sizeof(INPUT)))
\*     status = UIOHOOK_FAILURE;
\* after the calls the mapping made; send_ok is what SendInput answers.
send_input(mapped, calls, send_ok) ==
  IF mapped.status = UIOHOOK_SUCCESS
  THEN [ status |-> IF send_ok THEN UIOHOOK_SUCCESS ELSE UIOHOOK_FAILURE,
         calls |-> Append(calls, [mapped.input EXCEPT !.ok = send_ok]) ]
  ELSE [ status |-> mapped.status, calls |-> calls ]

\* x and y of the event, moved by the cursor position when the event is
\* relative to it and GetCursorPos succeeds.
event_position(event, env) ==
  IF event.type = "EVENT_MOUSE_MOVED_RELATIVE_TO_CURSOR" /\ env.cursor_ok
  THEN [ x |-> event.x + env.cursor[1], y |-> event.y + env.cursor[2] ]
  ELSE [ x |-> event.x, y |-> event.y ]

\* The pointer move map_mouse_event posts before a press or release with
\* coordinates: event->type = EVENT_MOUSE_MOVED; hook_post_event(event);
\* whose status is dropped.  lnc is the cache the outer call left.
post_move_first(event, lnc, monitors, env) ==
  IF ~env.nested_calloc THEN << >>
  ELSE send_input(map_mouse_switch([event EXCEPT !.type = "EVENT_MOUSE_MOVED"],
                                   normalize_coordinates(event.x, event.y, lnc, monitors)),
                  << >>, env.nested_send).calls

\* if (event->type == EVENT_MOUSE_PRESSED) ... / EVENT_MOUSE_RELEASED
moves_first(event) == event.type \in {"EVENT_MOUSE_PRESSED", "EVENT_MOUSE_RELEASED"}

\* map_mouse_event(event, input): the status, the input mapped, the calls
\* made on the way and the monitor cache it leaves.
map_mouse_event(event, cache, monitors, env) ==
  LET lnc == IF event.type # "EVENT_MOUSE_WHEEL"
             THEN get_largest_negative_coordinates(cache, monitors)
             ELSE cache
      pos == event_position(event, env)
      nc == IF event.type # "EVENT_MOUSE_WHEEL"
            THEN normalize_coordinates(pos.x, pos.y, lnc, monitors)
            ELSE [x |-> 0, y |-> 0]
      mapped == map_mouse_switch(event, nc)
  IN [ status |-> mapped.status, input |-> mapped.input, cache |-> lnc,
       calls |-> IF mapped.status = UIOHOOK_SUCCESS /\ moves_first(event)
                 THEN post_move_first(event, lnc, monitors, env)
                 ELSE << >> ]

\* hook_post_text: return UIOHOOK_SUCCESS;
post_text_status(status) == UIOHOOK_SUCCESS

\* hook_post_event with EVENT_KEY_TYPED handled as a key event.
post_event_typed(event, cache, monitors, env) ==
  IF ~env.calloc
  THEN [ status |-> UIOHOOK_ERROR_OUT_OF_MEMORY, calls |-> << >>, cache |-> cache ]
  ELSE IF event.type \in {"EVENT_KEY_PRESSED", "EVENT_KEY_RELEASED"}
  THEN LET r == send_input(map_keyboard_event(event, env.extended), << >>, env.send)
       IN [ status |-> r.status, calls |-> r.calls, cache |-> cache ]
  ELSE IF event.type = "EVENT_KEY_TYPED"
  THEN LET r == send_input(map_keyboard_event_unchecked(event, env.extended), << >>, env.send)
       IN [ status |-> r.status, calls |-> r.calls, cache |-> cache ]
  ELSE IF event.type \in WinMouseTypes
  THEN LET mm == map_mouse_event(event, cache, monitors, env)
           r == send_input(mm, mm.calls, env.send)
       IN [ status |-> r.status, calls |-> r.calls, cache |-> mm.cache ]
  ELSE [ status |-> UIOHOOK_FAILURE, calls |-> << >>, cache |-> cache ]

\* hook_post_event(event) on Windows: the status returned, the SendInput
\* calls made and the monitor cache left.  env is what the OS answers.
post_event(event, cache, monitors, env) ==
  IF ~env.calloc
  THEN [ status |-> UIOHOOK_ERROR_OUT_OF_MEMORY, calls |-> << >>, cache |-> cache ]
  ELSE IF event.type \in {"EVENT_KEY_PRESSED", "EVENT_KEY_RELEASED"}
  THEN LET r == send_input(map_keyboard_event(event, env.extended), << >>, env.send)
       IN [ status |-> r.status, calls |-> r.calls, cache |-> cache ]
  ELSE IF event.type \in WinMouseTypes
  THEN LET mm == map_mouse_event(event, cache, monitors, env)
           r == send_input(mm, mm.calls, env.send)
       IN [ status |-> r.status, calls |-> r.calls, cache |-> mm.cache ]
  ELSE [ status |-> UIOHOOK_FAILURE, calls |-> << >>, cache |-> cache ]

\* One INPUT of hook_post_text: type INPUT_KEYBOARD, ki.wVk = 0, ki.wScan the
\* code unit, ki.dwFlags KEYEVENTF_UNICODE with KEYEVENTF_KEYUP or with
\* KEYEVENTF_KEYDOWN, which is 0.
UnicodeInput(unit, up) ==
  [ type |-> "INPUT_KEYBOARD", wVk |-> 0, wScan |-> unit % U16,
    dwFlags |-> IF up THEN {"KEYEVENTF_UNICODE", "KEYEVENTF_KEYUP"}
                ELSE {"KEYEVENTF_UNICODE"} ]

\* The array with every key-up ahead of the key-downs.
text_inputs_up_first(units) ==
  [ i \in 1..(2 * Len(units)) |->
      IF i <= Len(units) THEN UnicodeInput(units[i], TRUE)
      ELSE UnicodeInput(units[i - Len(units)], FALSE) ]

\* hook_post_text: the two loops that fill input[0..count-1] with the
\* key-downs and input[count..2*count-1] with the key-ups.
text_inputs(units) ==
  [ i \in 1..(2 * Len(units)) |->
      IF i <= Len(units) THEN UnicodeInput(units[i], FALSE)
      ELSE UnicodeInput(units[i - Len(units)], TRUE) ]

\* hook_post_text(text) on Windows.  text.null is a NULL pointer; calloc of
\* no bytes may return NULL as well.
post_text(text, env) ==
  IF text.null
  THEN [ status |-> UIOHOOK_ERROR_POST_TEXT_NULL, calls |-> << >>, input |-> << >> ]
  ELSE IF ~env.calloc
  THEN [ status |-> UIOHOOK_ERROR_OUT_OF_MEMORY, calls |-> << >>, input |-> << >> ]
  ELSE LET count == Len(text.units)
           sent == env.send /\ count > 0
       IN [ status |-> post_text_status(IF sent THEN UIOHOOK_SUCCESS ELSE UIOHOOK_FAILURE),
            calls |-> << Input("text", 0, {"KEYEVENTF_UNICODE"}, 0, 0, count * 2, sent) >>,
            input |-> text_inputs(text.units) ]

\* The injected input that reaches the low-level hooks of a running session:
\* key and button input the OS accepted, while the queue has room.
hooked_input(event, calls) ==
  IF pc = "loop" /\ calls # << >> /\ calls[Len(calls)].ok
     /\ calls[Len(calls)].kind = "key" /\ Len(os_input) < MaxPending
  THEN << [ input |-> calls[Len(calls)], posted |-> event ] >>
  ELSE << >>

\* hook_post_event called by thread.
hook_post_event(thread, event, env) ==
  /\ post.platform = "windows"
  /\ \E r \in {post_event(event, MonitorCache, os_monitors, env)} :
       /\ post' = [ NoPost EXCEPT !.fn = "hook_post_event",
                                  !.thread = thread, !.event = event,
                                  !.status = r.status, !.calls = r.calls,
                                  !.wrote_cache = r.cache.wrote,
                                  !.extended = env.extended,
                                  !.monitors = os_monitors, !.cache = r.cache ]
       /\ monitors_enumerated' = r.cache.enumerated
       /\ left' = r.cache.left
       /\ top' = r.cache.top
       /\ os_input' = os_input \o hooked_input(event, r.calls)
  /\ UNCHANGED << session_vars, stop_vars, os_monitors, modifier_mask, msg_queue,
                  quit_flag, init_poll, cb, tbl, helper_vars, injected, darwin_post_vars,
                  runloop_vars >>

\* hook_post_text called by thread.
hook_post_text(thread, text, env) ==
  /\ post.platform = "windows"
  /\ \E r \in {post_text(text, env)} :
       post' = [ NoPost EXCEPT !.fn = "hook_post_text", !.null = text.null,
                               !.thread = thread, !.text = text.units,
                               !.status = r.status, !.calls = r.calls,
                               !.input = r.input ]
  /\ UNCHANGED << session_vars, monitor_vars, stop_vars, modifier_mask, msg_queue,
                  quit_flag, init_poll, cb, tbl, helper_vars, input_vars, darwin_post_vars,
                  runloop_vars >>

\* The monitors are rearranged; the OS posts WM_DISPLAYCHANGE to the
\* invisible window when there is one and its queue has room.
display_change(monitors) ==
  /\ monitors # os_monitors
  /\ invisible_win_hwnd \in os_windows => Len(msg_queue) < MaxQueue
  /\ os_monitors' = monitors
  /\ msg_queue' = IF invisible_win_hwnd # NULL /\ invisible_win_hwnd \in os_windows
                     /\ Len(msg_queue) < MaxQueue
                  THEN Append(msg_queue, Message(invisible_win_hwnd, "WM_DISPLAYCHANGE"))
                  ELSE msg_queue
  /\ UNCHANGED << session_vars, stop_vars, monitors_enumerated, left, top,
                  modifier_mask, quit_flag, init_poll, cb, tbl, synthesis_vars >>

\* wParam of the keyboard hook for an injected key input.
injected_wParam(input) ==
  IF "KEYEVENTF_KEYUP" \in input.flags THEN "WM_KEYUP" ELSE "WM_KEYDOWN"

\* The KBDLLHOOKSTRUCT of an injected key input: vkCode is wVk, and
\* LLKHF_EXTENDED (the value of KEYEVENTF_EXTENDEDKEY) is set for an input
\* with KEYEVENTF_EXTENDEDKEY; nchars is what keycode_to_unicode returns.
injected_kbhook(input, nchars) ==
  [ vkCode |-> input.code,
    flags |-> IF "KEYEVENTF_EXTENDEDKEY" \in input.flags THEN KEYEVENTF_EXTENDEDKEY ELSE 0,
    nchars |-> nchars ]

\* keyboard_hook_event_proc called by the OS with the oldest injected key
\* input that SendInput accepted, nCode being HC_ACTION.
keyboard_hook_injected(nchars, consume, next_result) ==
  /\ pc = "loop"
  /\ "keyboard" \in os_hooks
  /\ os_input # << >>
  /\ nchars # 0 => "KEYEVENTF_KEYUP" \notin Head(os_input).input.flags
  /\ hook_event_proc("keyboard", keyboard_hook_calls(injected_wParam(Head(os_input).input)), 0,
                     [ kbhook |-> injected_kbhook(Head(os_input).input, nchars),
                       same_place |-> FALSE ],
                     consume, next_result)
  /\ os_input' = Tail(os_input)
  /\ injected' = Head(os_input)
  /\ UNCHANGED << session_vars, monitor_vars, stop_vars, msg_queue, quit_flag, tbl,
                  post, darwin_post_vars, runloop_vars, helper_vars >>

(***************************************************************************)
(* Event synthesis on macOS: post_event.c with its three statics.          *)
(***************************************************************************)
\* A Quartz event handed to CGEventPost.
CGEvent(kind, type, code, flags, point) ==
  [ kind |-> kind, type |-> type, code |-> code, flags |-> flags,
    point |-> point, ok |-> TRUE ]

\* The CGEventFlags bit of a modifier key code, 0 for another key:
\* VC_SHIFT_L/R, VC_CONTROL_L/R, VC_META_L/R, VC_ALT_L/R.
darwin_modifier_flag(keycode) ==
  CASE keycode \in {VC_SHIFT_L, 45072} -> kCGEventFlagMaskShift
    [] keycode \in {40977, 45073}      -> kCGEventFlagMaskControl
    [] keycode \in {41117, 45213}      -> kCGEventFlagMaskCommand
    [] keycode \in {40978, 45074}      -> kCGEventFlagMaskAlternate
    [] OTHER                           -> 0

\* VC_KP_0 .. VC_KP_9, VC_KP_MULTIPLY, VC_KP_ADD, VC_KP_SEPARATOR,
\* VC_KP_SUBTRACT, VC_KP_DIVIDE, VC_KP_ENTER and VC_NUM_LOCK
darwin_numeric_pad(keycode) ==
  keycode \in (96..105) \cup {106, 107, 108, 109, 111, VC_KP_ENTER, 144}

\* The update of current_modifier_mask at the head of post_key_event.
shadow_mask(mask, event) ==
  IF event.type = "EVENT_KEY_PRESSED"
  THEN BitOr(mask, darwin_modifier_flag(event.keycode))
  ELSE IF event.type = "EVENT_KEY_RELEASED"
  THEN mask - BitAnd(mask, darwin_modifier_flag(event.keycode))
  ELSE mask

\* post_key_event(event, src): the status, the events posted and the
\* current_modifier_mask it leaves.
darwin_post_key_event(event, mask, env) ==
  LET m1 == shadow_mask(mask, event)
      event_mask == IF darwin_numeric_pad(event.keycode)
                    THEN BitOr(m1, kCGEventFlagMaskNumericPad) ELSE m1
      keycode == darwin_vcode_to_keycode(event.keycode) % U16
  IN IF event.type \notin {"EVENT_KEY_PRESSED", "EVENT_KEY_RELEASED"}
     THEN [ status |-> UIOHOOK_FAILURE, calls |-> << >>, mask |-> mask ]
     ELSE IF keycode = kVK_Undefined
     THEN [ status |-> UIOHOOK_FAILURE, calls |-> << >>, mask |-> m1 ]
     ELSE IF ~env.create_ok
     THEN [ status |-> UIOHOOK_ERROR_OUT_OF_MEMORY, calls |-> << >>, mask |-> m1 ]
     ELSE [ status |-> UIOHOOK_SUCCESS,
            calls |-> << CGEvent("key", event.type, keycode, event_mask, << 0, 0 >>) >>,
            mask |-> m1 ]

\* post_mouse_event: the switch on the event type, which sets the event to
\* create and updates current_motion_event and current_motion_button.
darwin_mouse_switch(event, motion) ==
  CASE event.type \in PressTypes ->
         IF event.button = MOUSE_NOBUTTON
         THEN [ status |-> UIOHOOK_FAILURE, type |-> "kCGEventNull", button |-> 0, motion |-> motion ]
         ELSE IF event.button = MOUSE_BUTTON1
         THEN [ status |-> UIOHOOK_SUCCESS, type |-> "kCGEventLeftMouseDown", button |-> 0,
                motion |-> [ event |-> "kCGEventLeftMouseDragged", button |-> 0 ] ]
         ELSE IF event.button = MOUSE_BUTTON2
         THEN [ status |-> UIOHOOK_SUCCESS, type |-> "kCGEventRightMouseDown", button |-> 1,
                motion |-> [ event |-> "kCGEventRightMouseDragged", button |-> 1 ] ]
         ELSE [ status |-> UIOHOOK_SUCCESS, type |-> "kCGEventOtherMouseDown",
                button |-> event.button - 1,
                motion |-> [ event |-> "kCGEventOtherMouseDragged", button |-> event.button - 1 ] ]
    [] event.type \in ReleaseTypes ->
         IF event.button = MOUSE_NOBUTTON
         THEN [ status |-> UIOHOOK_FAILURE, type |-> "kCGEventNull", button |-> 0, motion |-> motion ]
         ELSE IF event.button = MOUSE_BUTTON1
         THEN [ status |-> UIOHOOK_SUCCESS, type |-> "kCGEventLeftMouseUp", button |-> 0,
                motion |-> [ event |-> IF motion.event = "kCGEventLeftMouseDragged"
                                       THEN "kCGEventMouseMoved" ELSE motion.event,
                             button |-> 0 ] ]
         ELSE IF event.button = MOUSE_BUTTON2
         THEN [ status |-> UIOHOOK_SUCCESS, type |-> "kCGEventRightMouseUp", button |-> 1,
                motion |-> [ event |-> IF motion.event = "kCGEventRightMouseDragged"
                                       THEN "kCGEventMouseMoved" ELSE motion.event,
                             button |-> 1 ] ]
         ELSE [ status |-> UIOHOOK_SUCCESS, type |-> "kCGEventOtherMouseUp",
                button |-> event.button - 1,
                motion |-> [ event |-> IF motion.event = "kCGEventOtherMouseDragged"
                                       THEN "kCGEventMouseMoved" ELSE motion.event,
                             button |-> event.button - 1 ] ]
    [] event.type \in MoveTypes ->
         [ status |-> UIOHOOK_SUCCESS, type |-> motion.event, button |-> motion.button,
           motion |-> motion ]
    [] OTHER ->
         [ status |-> UIOHOOK_FAILURE, type |-> "kCGEventNull", button |-> 0, motion |-> motion ]

\* The point of the event: the pointer's for the _IGNORE_COORDS types, the
\* pointer's plus the event's for the relative move, the event's otherwise.
darwin_point(event, env) ==
  IF event.type \in {"EVENT_MOUSE_PRESSED_IGNORE_COORDS", "EVENT_MOUSE_RELEASED_IGNORE_COORDS"}
  THEN env.cursor
  ELSE IF event.type = "EVENT_MOUSE_MOVED_RELATIVE_TO_CURSOR"
  THEN << env.cursor[1] + event.x, env.cursor[2] + event.y >>
  ELSE << event.x, event.y >>

\* post_mouse_event(event, src)
darwin_post_mouse_event(event, motion, env) ==
  LET sw == darwin_mouse_switch(event, motion)
  IN IF sw.status # UIOHOOK_SUCCESS
     THEN [ status |-> sw.status, calls |-> << >>, motion |-> sw.motion ]
     ELSE IF ~env.create_ok
     THEN [ status |-> UIOHOOK_ERROR_OUT_OF_MEMORY, calls |-> << >>, motion |-> sw.motion ]
     ELSE [ status |-> UIOHOOK_SUCCESS,
            calls |-> << CGEvent("mouse", sw.type, sw.button, 0, darwin_point(event, env)) >>,
            motion |-> sw.motion ]

\* post_mouse_wheel_event(event, src): wheel1 is vertical, wheel2 horizontal
darwin_post_mouse_wheel_event(event, env) ==
  IF ~env.create_ok
  THEN [ status |-> UIOHOOK_ERROR_OUT_OF_MEMORY, calls |-> << >> ]
  ELSE [ status |-> UIOHOOK_SUCCESS,
         calls |-> << CGEvent("wheel", "kCGEventScrollWheel", 0, 0,
                              IF event.direction = WHEEL_HORIZONTAL_DIRECTION
                              THEN << 0, event.rotation >>
                              ELSE << event.rotation, 0 >>) >> ]

\* hook_post_event(event) on macOS
darwin_post_event(event, mask, motion, env) ==
  IF ~env.source_ok
  THEN [ status |-> UIOHOOK_ERROR_OUT_OF_MEMORY, calls |-> << >>, mask |-> mask, motion |-> motion ]
  ELSE IF event.type \in {"EVENT_KEY_PRESSED", "EVENT_KEY_RELEASED"}
  THEN LET r == darwin_post_key_event(event, mask, env)
       IN [ status |-> r.status, calls |-> r.calls, mask |-> r.mask, motion |-> motion ]
  ELSE IF event.type \in PressTypes \cup ReleaseTypes \cup MoveTypes
  THEN LET r == darwin_post_mouse_event(event, motion, env)
       IN [ status |-> r.status, calls |-> r.calls, mask |-> mask, motion |-> r.motion ]
  ELSE IF event.type = "EVENT_MOUSE_WHEEL"
  THEN LET r == darwin_post_mouse_wheel_event(event, env)
       IN [ status |-> r.status, calls |-> r.calls, mask |-> mask, motion |-> motion ]
  ELSE [ status |-> UIOHOOK_FAILURE, calls |-> << >>, mask |-> mask, motion |-> motion ]

\* What is down after hook_post_event posted the event: a modifier key or a
\* button it posted pressed is, one it posted released is not.
posted_down_after(down, event, status) ==
  IF ~down.recorded \/ status # UIOHOOK_SUCCESS THEN down
  ELSE IF event.type = "EVENT_KEY_PRESSED" /\ darwin_modifier_flag(event.keycode) # 0
  THEN [ down EXCEPT !.keys = @ \cup {event.keycode} ]
  ELSE IF event.type = "EVENT_KEY_RELEASED"
  THEN [ down EXCEPT !.keys = @ \ {event.keycode} ]
  ELSE IF event.type \in PressTypes
  THEN [ down EXCEPT !.buttons = @ \cup {event.button} ]
  ELSE IF event.type \in ReleaseTypes
  THEN [ down EXCEPT !.buttons = @ \ {event.button} ]
  ELSE down

\* hook_post_event called on macOS.
darwin_hook_post_event(thread, event, env) ==
  /\ post.platform = "darwin"
  /\ \E r \in {darwin_post_event(event, current_modifier_mask,
                                 [ event |-> current_motion_event,
                                   button |-> current_motion_button ], env)} :
       /\ post' = [ NoPost EXCEPT !.platform = "darwin", !.fn = "hook_post_event",
                                  !.thread = thread, !.event = event,
                                  !.status = r.status, !.calls = r.calls ]
       /\ current_modifier_mask' = r.mask
       /\ current_motion_event' = r.motion.event
       /\ current_motion_button' = r.motion.button
       /\ posted_down' = posted_down_after(posted_down, event, r.status)
  /\ UNCHANGED << session_vars, monitor_vars, stop_vars, modifier_mask, msg_queue,
                  quit_flag, init_poll, cb, tbl, helper_vars, input_vars, runloop_vars >>

\* hook_post_text(text) on macOS.  The function is declared int and ends
\* without a return statement: after the two CGEventPost calls the caller
\* reads whatever the return register holds (env.garbage).  With a NULL
\* event from CGEventCreateKeyboardEvent the CFRelease at its end traps.
darwin_post_text(text, env) ==
  IF text.null
  THEN [ status |-> UIOHOOK_ERROR_POST_TEXT_NULL, calls |-> << >> ]
  ELSE IF ~env.create_ok
  THEN [ status |-> Crashed, calls |-> << >> ]
  ELSE [ status |-> env.garbage,
         calls |-> << CGEvent("text", "EVENT_KEY_PRESSED", 0, 0, << Len(text.units), 0 >>),
                      CGEvent("text", "EVENT_KEY_RELEASED", 0, 0, << Len(text.units), 0 >>) >> ]

darwin_hook_post_text(thread, text, env) ==
  /\ post.platform = "darwin"
  /\ \E r \in {darwin_post_text(text, env)} :
       post' = [ NoPost EXCEPT !.platform = "darwin", !.fn = "hook_post_text",
                               !.null = text.null,
                               !.thread = thread, !.text = text.units,
                               !.status = r.status, !.calls = r.calls ]
  /\ UNCHANGED << session_vars, monitor_vars, stop_vars, modifier_mask, msg_queue,
                  quit_flag, init_poll, cb, tbl, helper_vars, input_vars, darwin_post_vars,
                  runloop_vars >>

(***************************************************************************)
(* macOS input_helper.c: the Unicode lookup of a key event, which has to   *)
(* run on the main run loop, and the dispatcher load_input_helper sets up. *)
(***************************************************************************)
\* create_main_runloop_info(&main_runloop_info) followed, when it fails, by
\* destroy_main_runloop_info: the status and the pointer left.  fail names
\* the call that fails.  After a failed calloc or CFRunLoopObserverCreate the
\* structure malloc returned holds fields nothing has written, which
\* destroy_main_runloop_info reads: it returns or it faults (garbage_ok).
create_main_runloop_info(info, fail, garbage_ok) ==
  IF info.created THEN [ status |-> UIOHOOK_FAILURE, info |-> NoRunLoopInfo ]
  ELSE CASE fail = "none"   -> [ status |-> UIOHOOK_SUCCESS, info |-> RunLoopInfo ]
         [] fail = "malloc" -> [ status |-> UIOHOOK_ERROR_OUT_OF_MEMORY, info |-> NoRunLoopInfo ]
         [] fail = "calloc" ->
              [ status |-> IF garbage_ok THEN UIOHOOK_ERROR_OUT_OF_MEMORY ELSE Crashed,
                info |-> NoRunLoopInfo ]
         [] fail = "observer" ->
              [ status |-> IF garbage_ok THEN UIOHOOK_ERROR_CREATE_OBSERVER ELSE Crashed,
                info |-> NoRunLoopInfo ]
         [] fail = "source" ->
              [ status |-> UIOHOOK_ERROR_CREATE_RUN_LOOP_SOURCE, info |-> NoRunLoopInfo ]

\* initialize_modifiers of macOS: set_modifier_mask for what is held, the
\* mask not being cleared first.
darwin_initialize_modifiers(m, held) == set_modifier_mask(m, held)

\* load_input_helper() on thread: the modifiers are polled; off the main run
\* loop dlsym looks dispatch_sync_f and _dispatch_main_q up, and without
\* them the run-loop source and observer are created.
load_input_helper(thread, env) ==
  /\ load_status # Crashed
  /\ tis_keycode_message.pc \in {"none", "returned"}
  /\ deadkey_state' = 0
  /\ modifier_mask' = darwin_initialize_modifiers(modifier_mask, env.held)
  /\ IF thread = MainThread
     THEN /\ load_status' = UIOHOOK_SUCCESS
          /\ UNCHANGED << dispatch_sync_f_f, main_runloop_info >>
     ELSE /\ dispatch_sync_f_f' = IF env.dlsym_ok THEN 1 ELSE NULL
          /\ IF env.dlsym_ok
             THEN /\ load_status' = UIOHOOK_SUCCESS
                  /\ UNCHANGED main_runloop_info
             ELSE \E r \in {create_main_runloop_info(main_runloop_info, env.fail,
                                                      env.garbage_ok)} :
                    /\ load_status' = r.status
                    /\ main_runloop_info' = r.info
  /\ UNCHANGED << session_vars, monitor_vars, stop_vars, msg_queue, quit_flag,
                  init_poll, cb, tbl, post, input_vars, darwin_post_vars,
                  dispatch_main_queue, main_runloop_mutex, main_runloop_cond,
                  main_runloop, tis_keycode_message, prev_keyboard_layout,
                  os_keyboard_layout, uc_translate, display_lock, keymap_vars >>

\* unload_input_helper() off the main run loop: destroy_main_runloop_info
\* under the mutex.
unload_input_helper ==
  /\ load_status # Crashed
  /\ tis_keycode_message.pc \in {"none", "returned"}
  /\ main_runloop_mutex = NULL
  /\ main_runloop_info.created
  /\ main_runloop_info' = NoRunLoopInfo
  /\ prev_keyboard_layout' = NULL
  /\ UNCHANGED << session_vars, monitor_vars, stop_vars, modifier_mask, msg_queue,
                  quit_flag, init_poll, cb, tbl, post, input_vars, darwin_post_vars,
                  dispatch_sync_f_f, load_status, dispatch_main_queue,
                  main_runloop_mutex, main_runloop_cond, main_runloop,
                  tis_keycode_message, deadkey_state, os_keyboard_layout,
                  uc_translate, display_lock, keymap_vars >>

\* tis_message_to_unicode(info) run by thread
tis_message_to_unicode(tis, thread) ==
  [ tis EXCEPT !.length = tis.produced, !.lookup = thread ]

\* The dead-key state UCKeyTranslate leaves behind a dead key of layout: an
\* index into the dead-key table of that layout.
DeadKeyState(layout) == layout

\* The key of the event is a dead key or not; a dead key produces no text.
KeyIsDead(produced) == { dead \in BOOLEAN : dead => produced = 0 }

\* tis_message_to_unicode, what it does to the statics: on the main run loop
\* UCKeyTranslate is called with the current layout, when there is one, and
\* with &deadkey_state; after the call the current layout is compared with
\* prev_keyboard_layout, deadkey_state is cleared when they differ, and the
\* current layout becomes the previous.
translate_with_deadkey_state(thread, dead) ==
  IF thread = MainThread
  THEN LET curr_keyboard_layout == os_keyboard_layout
           translated == IF curr_keyboard_layout = NULL THEN deadkey_state
                         ELSE IF dead THEN DeadKeyState(curr_keyboard_layout)
                         ELSE 0
       IN /\ uc_translate' = IF curr_keyboard_layout = NULL THEN uc_translate
                             ELSE [ layout |-> curr_keyboard_layout, state |-> deadkey_state ]
          /\ deadkey_state' = IF /\ prev_keyboard_layout # NULL
                                 /\ curr_keyboard_layout # NULL
                                 /\ curr_keyboard_layout # prev_keyboard_layout
                              THEN 0
                              ELSE translated
          /\ prev_keyboard_layout' = curr_keyboard_layout
          /\ UNCHANGED os_keyboard_layout
  ELSE UNCHANGED unicode_vars

\* The user, or an application, selects another keyboard layout; NULL when
\* the current input source cannot be copied.
keyboard_layout_changes(layout) ==
  /\ layout # os_keyboard_layout
  /\ os_keyboard_layout' = layout
  /\ UNCHANGED << session_vars, monitor_vars, stop_vars, modifier_mask, msg_queue,
                  quit_flag, init_poll, cb, tbl, post, input_vars, darwin_post_vars,
                  runloop_vars, deadkey_state, prev_keyboard_layout, uc_translate,
                  display_lock, keymap_vars >>

\* The value of the local `context` after
\*   CFRunLoopSourceContext *context = NULL;
\*   CFRunLoopSourceGetContext(main_runloop_info->source, context);
\* The pointer is passed by value: it is NULL whatever the source holds.
context_after_get(source) == NULL

\* event_to_unicode(event_ref, buffer, size) called by thread, up to the
\* point where it returns, hands the lookup to the main dispatch queue, or
\* is about to lock main_runloop_mutex.
event_to_unicode(thread, produced) ==
  /\ load_status # Crashed
  /\ tis_keycode_message.pc \in {"none", "returned"}
  /\ IF thread = MainThread
     THEN /\ tis_keycode_message' =
               tis_message_to_unicode(TISKeycodeMessage(thread, produced, "main", "returned"),
                                      thread)
          /\ \E dead \in KeyIsDead(produced) : translate_with_deadkey_state(thread, dead)
          /\ UNCHANGED dispatch_main_queue
     ELSE IF dispatch_sync_f_f # NULL
     THEN /\ tis_keycode_message' =
               TISKeycodeMessage(thread, produced, "dispatch_sync_f", "dispatched")
          /\ dispatch_main_queue' = Append(dispatch_main_queue, "tis_message_to_unicode")
          /\ UNCHANGED unicode_vars
     ELSE /\ tis_keycode_message' = TISKeycodeMessage(thread, produced, "runloop", "lock")
          /\ UNCHANGED << dispatch_main_queue, unicode_vars >>
  /\ UNCHANGED << display_lock, keymap_vars >>
  /\ UNCHANGED << session_vars, monitor_vars, stop_vars, modifier_mask, msg_queue,
                  quit_flag, init_poll, cb, tbl, post, input_vars, darwin_post_vars,
                  dispatch_sync_f_f, load_status, main_runloop_info,
                  main_runloop_mutex, main_runloop_cond, main_runloop >>

\* event_to_unicode, the run-loop branch from pthread_mutex_lock to
\* pthread_cond_wait or to the point before pthread_mutex_unlock.
\* get_faults: CFRunLoopSourceGetContext faults on the NULL it is given.
event_to_unicode_signal(get_faults) ==
  /\ tis_keycode_message.pc = "lock"
  /\ main_runloop_mutex = NULL
  /\ LET tis == [ tis_keycode_message EXCEPT !.mode = main_runloop = "running",
                                            !.info = main_runloop_info.created ]
     IN IF main_runloop # "running" \/ ~main_runloop_info.created
        THEN /\ tis_keycode_message' = [ tis EXCEPT !.pc = "unlock" ]
             /\ main_runloop_mutex' = tis.thread
             /\ UNCHANGED << main_runloop_info, main_runloop_cond, load_status >>
        ELSE IF get_faults
        THEN /\ tis_keycode_message' = [ tis EXCEPT !.pc = "crashed" ]
             /\ main_runloop_mutex' = tis.thread
             /\ load_status' = Crashed
             /\ UNCHANGED << main_runloop_info, main_runloop_cond >>
        ELSE IF context_after_get(main_runloop_info.source) # NULL
        THEN /\ main_runloop_info' =
                  [ main_runloop_info EXCEPT !.source.signaled = TRUE,
                                             !.source.perform = "main_runloop_unicode_proc" ]
             /\ tis_keycode_message' = [ tis EXCEPT !.pc = "wait", !.signaled = TRUE ]
             /\ main_runloop_cond' = main_runloop_cond \cup {tis.thread}
             /\ UNCHANGED << main_runloop_mutex, load_status >>
        ELSE /\ tis_keycode_message' = [ tis EXCEPT !.pc = "unlock" ]
             /\ main_runloop_mutex' = tis.thread
             /\ UNCHANGED << main_runloop_info, main_runloop_cond, load_status >>
  /\ UNCHANGED << session_vars, monitor_vars, stop_vars, modifier_mask, msg_queue,
                  quit_flag, init_poll, cb, tbl, helper_vars, post, input_vars, darwin_post_vars,
                  dispatch_sync_f_f, dispatch_main_queue, main_runloop >>

\* event_to_unicode: pthread_mutex_unlock, by a thread that holds the mutex
\* or takes it again as pthread_cond_wait returns, and
\* return tis_keycode_message.length.
event_to_unicode_return ==
  /\ \/ tis_keycode_message.pc = "unlock"
     \/ /\ tis_keycode_message.pc = "wait"
        /\ tis_keycode_message.thread \notin main_runloop_cond
        /\ main_runloop_mutex = NULL
  /\ tis_keycode_message' = [ tis_keycode_message EXCEPT !.pc = "returned" ]
  /\ main_runloop_mutex' = NULL
  /\ UNCHANGED << session_vars, monitor_vars, stop_vars, modifier_mask, msg_queue,
                  quit_flag, init_poll, cb, tbl, helper_vars, post, input_vars, darwin_post_vars,
                  dispatch_sync_f_f, load_status, dispatch_main_queue,
                  main_runloop_info, main_runloop_cond, main_runloop >>

\* The main thread enters its run loop.
CFRunLoopRun ==
  /\ load_status # Crashed
  /\ main_runloop = "stopped"
  /\ main_runloop' = "running"
  /\ UNCHANGED << session_vars, monitor_vars, stop_vars, modifier_mask, msg_queue,
                  quit_flag, init_poll, cb, tbl, helper_vars, post, input_vars, darwin_post_vars,
                  dispatch_sync_f_f, load_status, dispatch_main_queue,
                  main_runloop_info, main_runloop_mutex, main_runloop_cond,
                  tis_keycode_message >>

\* The running main run loop serves the main dispatch queue, where the
\* function dispatch_sync_f submitted runs and its caller resumes, or its
\* signaled source, whose perform is main_runloop_unicode_proc when the
\* context was set up: lock, tis_message_to_unicode, broadcast, unlock.
main_runloop_serves ==
  /\ load_status # Crashed
  /\ main_runloop = "running"
  /\ IF dispatch_main_queue # << >>
     THEN /\ dispatch_main_queue' = Tail(dispatch_main_queue)
          /\ tis_keycode_message' =
               [ tis_message_to_unicode(tis_keycode_message, MainThread)
                   EXCEPT !.pc = "returned" ]
          /\ \E dead \in KeyIsDead(tis_keycode_message.produced) :
               translate_with_deadkey_state(MainThread, dead)
          /\ UNCHANGED << main_runloop_info, main_runloop_cond >>
     ELSE /\ main_runloop_info.created
          /\ main_runloop_info.source.signaled
          /\ main_runloop_mutex = NULL
          /\ main_runloop_info' = [ main_runloop_info EXCEPT !.source.signaled = FALSE ]
          /\ IF main_runloop_info.source.perform # NULL
             THEN /\ tis_keycode_message' =
                       tis_message_to_unicode(tis_keycode_message, MainThread)
                  /\ \E dead \in KeyIsDead(tis_keycode_message.produced) :
                       translate_with_deadkey_state(MainThread, dead)
                  /\ main_runloop_cond' = {}
             ELSE UNCHANGED << tis_keycode_message, main_runloop_cond, unicode_vars >>
          /\ UNCHANGED dispatch_main_queue
  /\ UNCHANGED << display_lock, keymap_vars >>
  /\ UNCHANGED << session_vars, monitor_vars, stop_vars, modifier_mask, msg_queue,
                  quit_flag, init_poll, cb, tbl, post, input_vars, darwin_post_vars,
                  dispatch_sync_f_f, load_status, main_runloop_mutex, main_runloop >>

\* The main run loop exits; the observer, when it was added, runs
\* main_runloop_status_proc(kCFRunLoopExit): lock, broadcast, unlock.
main_runloop_status_proc ==
  /\ load_status # Crashed
  /\ main_runloop = "running"
  /\ main_runloop_info.observer => main_runloop_mutex = NULL
  /\ main_runloop' = "stopped"
  /\ main_runloop_cond' = IF main_runloop_info.observer THEN {} ELSE main_runloop_cond
  /\ UNCHANGED << session_vars, monitor_vars, stop_vars, modifier_mask, msg_queue,
                  quit_flag, init_poll, cb, tbl, helper_vars, post, input_vars, darwin_post_vars,
                  dispatch_sync_f_f, load_status, dispatch_main_queue,
                  main_runloop_info, main_runloop_mutex, tis_keycode_message >>

(***************************************************************************)
(* Event synthesis on X11: the button, wheel and motion events, and a key  *)
(* event with the key code the loaded key map gives (env.keycode).         *)
(***************************************************************************)
\* An XTest request: kind is "motion", "button" or "key".
XTest(kind, code, down, x, y, ok) ==
  [ kind |-> kind, code |-> code, down |-> down, x |-> x, y |-> y, ok |-> ok ]

\* post_key_event(event)
x11_post_key_event(event, env) ==
  IF env.keycode = 0
  THEN [ status |-> UIOHOOK_FAILURE, calls |-> << >> ]
  ELSE IF event.type \notin {"EVENT_KEY_PRESSED", "EVENT_KEY_RELEASED"}
  THEN [ status |-> UIOHOOK_FAILURE, calls |-> << >> ]
  ELSE [ status |-> IF env.fake_ok THEN UIOHOOK_SUCCESS ELSE UIOHOOK_FAILURE,
         calls |-> << XTest("key", env.keycode, event.type = "EVENT_KEY_PRESSED",
                            0, 0, env.fake_ok) >> ]

\* post_mouse_button_event(event): the motion request first, unless the
\* type is an _IGNORE_COORDS one, then the button request.
x11_post_mouse_button_event(event, env) ==
  LET motion == IF event.type \notin {"EVENT_MOUSE_PRESSED_IGNORE_COORDS",
                                       "EVENT_MOUSE_RELEASED_IGNORE_COORDS"}
                THEN << XTest("motion", 0, FALSE, event.x, event.y, env.motion_ok) >>
                ELSE << >>
  IN IF event.type \in PressTypes \cup ReleaseTypes
     THEN IF event.button < MOUSE_BUTTON1 \/ event.button > MOUSE_BUTTON5
          THEN [ status |-> UIOHOOK_FAILURE, calls |-> motion ]
          ELSE [ status |-> IF env.fake_ok THEN UIOHOOK_SUCCESS ELSE UIOHOOK_FAILURE,
                 calls |-> Append(motion, XTest("button", event.button,
                                                event.type \in PressTypes, 0, 0, env.fake_ok)) ]
     ELSE [ status |-> UIOHOOK_FAILURE, calls |-> motion ]

\* post_mouse_wheel_event: return UIOHOOK_SUCCESS;
x11_wheel_status(status) == UIOHOOK_SUCCESS

\* post_mouse_wheel_event(event): a press and, when it went through, a
\* release of the wheel's button (env.wheel_button is button_map_lookup's).
x11_post_mouse_wheel_event(event, env) ==
  IF env.fake_ok
  THEN [ status |-> x11_wheel_status(IF env.release_ok THEN UIOHOOK_SUCCESS ELSE UIOHOOK_FAILURE),
         calls |-> << XTest("button", env.wheel_button, TRUE, 0, 0, TRUE),
                      XTest("button", env.wheel_button, FALSE, 0, 0, env.release_ok) >> ]
  ELSE [ status |-> x11_wheel_status(UIOHOOK_FAILURE),
         calls |-> << XTest("button", env.wheel_button, TRUE, 0, 0, FALSE) >> ]

\* post_mouse_motion_event(event)
x11_post_mouse_motion_event(event, env) ==
  IF event.type = "EVENT_MOUSE_MOVED_RELATIVE_TO_CURSOR"
  THEN IF env.cursor_ok
       THEN [ status |-> IF env.motion_ok THEN UIOHOOK_SUCCESS ELSE UIOHOOK_FAILURE,
              calls |-> << XTest("motion", 0, FALSE, env.cursor[1] + event.x,
                                 env.cursor[2] + event.y, env.motion_ok) >> ]
       ELSE [ status |-> UIOHOOK_FAILURE, calls |-> << >> ]
  ELSE [ status |-> IF env.motion_ok THEN UIOHOOK_SUCCESS ELSE UIOHOOK_FAILURE,
         calls |-> << XTest("motion", 0, FALSE, event.x, event.y, env.motion_ok) >> ]

\* hook_post_event(event) on X11
x11_post_event(event, env) ==
  IF ~env.display_ok
  THEN [ status |-> UIOHOOK_ERROR_X_OPEN_DISPLAY, calls |-> << >> ]
  ELSE IF event.type \in {"EVENT_KEY_PRESSED", "EVENT_KEY_RELEASED"}
  THEN x11_post_key_event(event, env)
  ELSE IF event.type \in PressTypes \cup ReleaseTypes
  THEN x11_post_mouse_button_event(event, env)
  ELSE IF event.type = "EVENT_MOUSE_WHEEL"
  THEN x11_post_mouse_wheel_event(event, env)
  ELSE IF event.type \in MoveTypes
  THEN x11_post_mouse_motion_event(event, env)
  ELSE [ status |-> UIOHOOK_FAILURE, calls |-> << >> ]

\* XLockDisplay(helper_disp) by thread returns when no other thread holds
\* the lock; a thread may take it again.
XLockDisplay_returns(lock, thread) == lock.level = 0 \/ lock.owner = thread

XLockDisplay(lock, thread) == [ owner |-> thread, level |-> lock.level + 1 ]

XUnlockDisplay(lock) ==
  IF lock.level <= 1 THEN NoLock ELSE [ lock EXCEPT !.level = @ - 1 ]

\* hook_post_event called on X11: without a display it returns before it
\* locks; otherwise the lock is held from XLockDisplay to XUnlockDisplay.
x11_hook_post_event(thread, event, env) ==
  /\ post.platform = "x11"
  /\ env.display_ok => XLockDisplay_returns(display_lock, thread)
  /\ \E r \in {x11_post_event(event, env)} :
       post' = [ NoPost EXCEPT !.platform = "x11", !.fn = "hook_post_event",
                               !.keycode = env.keycode,
                               !.thread = thread, !.event = event,
                               !.status = r.status, !.calls = r.calls ]
  /\ display_lock' = IF env.display_ok
                     THEN XUnlockDisplay(XLockDisplay(display_lock, thread))
                     ELSE display_lock
  /\ UNCHANGED << session_vars, monitor_vars, stop_vars, modifier_mask, msg_queue,
                  quit_flag, init_poll, cb, tbl, unicode_vars, keymap_vars, input_vars,
                  darwin_post_vars, runloop_vars >>

\* find_unused_keycode(): 0 when XDisplayKeycodes or XFree fails or every key
\* code has a symbol, else the highest key code without one.
find_unused_keycode(env) == IF env.unused_ok THEN env.unused_keycode ELSE 0

\* convert_utf16_to_utf32(input, count), up to the first 0 it writes: a
\* surrogate pair becomes one code point, a lone surrogate U+FFFD.
RECURSIVE convert_utf16_to_utf32(_)
convert_utf16_to_utf32(input) ==
  IF input = << >> THEN << >>
  ELSE IF ~(input[1] >= 55296 /\ input[1] < 57344)
  THEN << input[1] >> \o convert_utf16_to_utf32(Tail(input))
  ELSE IF input[1] < 56320 /\ Len(input) > 1 /\ input[2] >= 56320 /\ input[2] < 57344
  THEN << (input[1] * 1024 + input[2]) - 56613888 >>
         \o convert_utf16_to_utf32(Tail(Tail(input)))
  ELSE << 65533 >> \o convert_utf16_to_utf32(Tail(input))

\* map_to_keysyms(text, count, &keysym_count): one KeySym per code point
map_to_keysyms(text) == convert_utf16_to_utf32(text)

\* XChangeKeyboardMapping(helper_disp, keycode, ..., keysym, 1)
XMapping(keycode, keysym, ok) ==
  [ kind |-> "mapping", code |-> keycode, keysym |-> keysym, ok |-> ok ]

\* post_keysym(keysym, keycode): the key code is mapped to the KeySym, then a
\* press and a release are faked; the first request that fails ends it
\* (fail names it: "none", "mapping", "press" or "release").
post_keysym(keysym, keycode, fail) ==
  << XMapping(keycode, keysym, fail # "mapping") >>
    \o (IF fail = "mapping" THEN << >>
        ELSE << XTest("key", keycode, TRUE, 0, 0, fail # "press") >>)
    \o (IF fail \in {"mapping", "press"} THEN << >>
        ELSE << XTest("key", keycode, FALSE, 0, 0, fail # "release") >>)

\* The requests of the post_keysym loop of hook_post_text, which breaks at
\* the first call that fails (the env.fail_at-th, 0 for none).
RECURSIVE post_keysyms(_, _, _, _)
post_keysyms(keysyms, keycode, i, env) ==
  IF i > Len(keysyms) THEN << >>
  ELSE IF i = env.fail_at
  THEN post_keysym(keysyms[i], keycode, env.fail)
  ELSE post_keysym(keysyms[i], keycode, "none")
         \o post_keysyms(keysyms, keycode, i + 1, env)

\* The loop left at its break, with the function returning there.
restore_keycode_unless_stopped(posted, reset, stopped) ==
  IF stopped THEN posted ELSE Append(posted, reset)

\* hook_post_text after its loop, left at its end or at the break:
\* XChangeKeyboardMapping(helper_disp, unused_keycode, 1, &keysym, 1) with
\* keysym = NoSymbol follows what was posted.
restore_keycode(posted, reset, stopped) == Append(posted, reset)

\* hook_post_text(text) on X11: the status, the key code chosen, the
\* requests, and whether the path that returns calls XLockDisplay and
\* XUnlockDisplay.
x11_post_text(text, env) ==
  IF text.null
  THEN [ status |-> UIOHOOK_ERROR_POST_TEXT_NULL, keycode |-> 0, calls |-> << >>,
         locks |-> FALSE, unlocks |-> FALSE ]
  ELSE IF ~env.display_ok
  THEN [ status |-> UIOHOOK_ERROR_X_OPEN_DISPLAY, keycode |-> 0, calls |-> << >>,
         locks |-> FALSE, unlocks |-> FALSE ]
  ELSE IF find_unused_keycode(env) = 0
  THEN [ status |-> UIOHOOK_FAILURE, keycode |-> 0, calls |-> << >>,
         locks |-> TRUE, unlocks |-> TRUE ]
  ELSE LET keysyms == map_to_keysyms(text.units)
           stopped == env.fail_at \in 1..Len(keysyms)
           posted == post_keysyms(keysyms, find_unused_keycode(env), 1, env)
           reset == XMapping(find_unused_keycode(env), 0, env.reset_ok)
       IN IF ~env.reset_ok
          THEN [ status |-> UIOHOOK_FAILURE, keycode |-> find_unused_keycode(env),
                 calls |-> restore_keycode(posted, reset, stopped),
                 locks |-> TRUE, unlocks |-> FALSE ]
          ELSE [ status |-> IF stopped THEN UIOHOOK_FAILURE ELSE UIOHOOK_SUCCESS,
                 keycode |-> find_unused_keycode(env),
                 calls |-> restore_keycode(posted, reset, stopped),
                 locks |-> TRUE, unlocks |-> TRUE ]

\* hook_post_text called on X11 by thread.
x11_hook_post_text(thread, text, env) ==
  /\ post.platform = "x11"
  /\ \E r \in {x11_post_text(text, env)} :
       /\ r.locks => XLockDisplay_returns(display_lock, thread)
       /\ post' = [ NoPost EXCEPT !.platform = "x11", !.fn = "hook_post_text",
                                  !.thread = thread, !.null = text.null,
                                  !.text = text.units, !.status = r.status,
                                  !.keycode = r.keycode, !.calls = r.calls ]
       /\ display_lock' =
            IF ~r.locks THEN display_lock
            ELSE IF r.unlocks THEN XUnlockDisplay(XLockDisplay(display_lock, thread))
            ELSE XLockDisplay(display_lock, thread)
  /\ UNCHANGED << session_vars, monitor_vars, stop_vars, modifier_mask, msg_queue,
                  quit_flag, init_poll, cb, tbl, unicode_vars, keymap_vars, input_vars,
                  darwin_post_vars, runloop_vars >>

(***************************************************************************)
(* The table lookups, applied to the native code tbl holds.                *)
(***************************************************************************)
\* vcode_to_keycode(keycode_to_vcode(n, flags)) with the Windows table
windows_round_trip ==
  /\ tbl.platform = "windows"
  /\ ~tbl.done
  /\ \E vcode \in {keycode_to_vcode(tbl.native, tbl.flags)} :
       tbl' = [tbl EXCEPT !.done = TRUE, !.vcode = vcode, !.back = vcode_to_keycode(vcode)]
  /\ UNCHANGED << session_vars, monitor_vars, stop_vars, modifier_mask,
                  msg_queue, quit_flag, init_poll, cb >>
  /\ UNCHANGED synthesis_vars

\* vcode_to_keycode(keycode_to_vcode(n)) with the macOS table
darwin_round_trip ==
  /\ tbl.platform = "darwin"
  /\ ~tbl.done
  /\ \E vcode \in {darwin_keycode_to_vcode(tbl.native)} :
       tbl' = [tbl EXCEPT !.done = TRUE, !.vcode = vcode, !.back = darwin_vcode_to_keycode(vcode)]
  /\ UNCHANGED << session_vars, monitor_vars, stop_vars, modifier_mask,
                  msg_queue, quit_flag, init_poll, cb >>
  /\ UNCHANGED synthesis_vars

(***************************************************************************)
(* Inputs and specifications.                                              *)
(***************************************************************************)
RunModes == { <<TRUE, TRUE>>, <<TRUE, FALSE>>, <<FALSE, TRUE>> }

\* What the OS may answer to run: at most one call fails, and GetKeyState
\* finds nothing held or a key, a lock key and a button held.
RunEnv ==
  { e \in [ module_ok : BOOLEAN, register_ok : BOOLEAN, create_ok : BOOLEAN,
            keyboard_ok : BOOLEAN, mouse_ok : BOOLEAN,
            held : { {}, {VK_LSHIFT, VK_CAPITAL, VK_LBUTTON} } ] :
      Cardinality({ok \in { <<1, e.module_ok>>, <<2, e.register_ok>>, <<3, e.create_ok>>,
                            <<4, e.keyboard_ok>>, <<5, e.mouse_ok>> } : ~ok[2]}) <= 1 }

\* ... and the answers under which every call succeeds.
RunEnvOk == { e \in RunEnv : e.module_ok /\ e.register_ok /\ e.create_ok
                             /\ e.keyboard_ok /\ e.mouse_ok }

KeyboardMessages == {"WM_KEYDOWN", "WM_SYSKEYDOWN", "WM_KEYUP", "WM_SYSKEYUP", "WM_NULL"}

MouseMessages ==
  { "WM_LBUTTONDOWN", "WM_RBUTTONDOWN", "WM_MBUTTONDOWN", "WM_XBUTTONDOWN",
    "WM_NCXBUTTONDOWN", "WM_LBUTTONUP", "WM_RBUTTONUP", "WM_MBUTTONUP",
    "WM_XBUTTONUP", "WM_NCXBUTTONUP", "WM_MOUSEMOVE", "WM_MOUSEWHEEL",
    "WM_MOUSEHWHEEL", "WM_NULL" }

\* KBDLLHOOKSTRUCT: a modifier, Enter (plain and extended), a letter and a
\* code the table does not hold; nchars is what keycode_to_unicode returns,
\* which is 0 for a modifier.  The extended flag comes with Enter.
KbHooks ==
  { k \in [ vkCode : {VK_LSHIFT, VK_RETURN, 65, 7}, flags : {0, KEYEVENTF_EXTENDEDKEY},
            nchars : 0..MaxChars ] :
      /\ k.flags # 0 => k.vkCode = VK_RETURN
      /\ k.nchars # 0 => k.vkCode \in {VK_RETURN, 65} }

\* The keyboard messages with their structure; only a key-down is typed.
KeyboardInputs ==
  { i \in [ wParam : KeyboardMessages, kbhook : KbHooks ] :
      i.kbhook.nchars # 0 => i.wParam \in {"WM_KEYDOWN", "WM_SYSKEYDOWN"} }

\* HIWORD(mshook->mouseData) of an X-button message.
HiWords == 1..5

\* The mouse messages: the X-button ones with their HIWORD, a button-up at the
\* place of the press or away from it.
MouseInputs ==
  { i \in [ wParam : MouseMessages, hiword : {0} \cup HiWords, same_place : BOOLEAN ] :
      /\ i.hiword # 0 <=> i.wParam \in {"WM_XBUTTONDOWN", "WM_NCXBUTTONDOWN",
                                         "WM_XBUTTONUP", "WM_NCXBUTTONUP"}
      /\ i.same_place => i.wParam \in {"WM_LBUTTONUP", "WM_RBUTTONUP", "WM_MBUTTONUP",
                                        "WM_XBUTTONUP", "WM_NCXBUTTONUP"} }

nCodes == {-1, 0}

NextResults == {0, 1}

\* A session with all its ways to start, stop and fail, and a few inputs.
Next ==
  \/ \E mode \in RunModes, env \in RunEnv : run(mode[1], mode[2], env)
  \/ message_loop
  \/ hook_stop_post_close
  \/ hook_stop_post_quit
  \/ \E wParam \in {"WM_LBUTTONDOWN", "WM_LBUTTONUP"} :
       mouse_hook_event_proc(0, wParam, 0, FALSE, FALSE, 0)

Spec == Init /\ [][Next]_vars

\* Sessions that start, and hook_stop against them.
NextStop ==
  \/ \E mode \in RunModes, env \in RunEnvOk : run(mode[1], mode[2], env)
  \/ message_loop
  \/ hook_stop_post_close
  \/ hook_stop_post_quit

\* The hook thread keeps turning its message loop while it has a message.
LiveSpec == Init /\ [][NextStop]_vars /\ WF_vars(message_loop)

\* A session that starts, and any sequence of the messages the callbacks
\* tell apart, none of them consumed by the user's handler.
NextHook ==
  \/ \E mode \in RunModes, env \in RunEnvOk : run(mode[1], mode[2], env)
  \/ \E i \in KeyboardInputs :
       keyboard_hook_event_proc(0, i.wParam, i.kbhook, FALSE, 0)
  \/ \E i \in MouseInputs :
       mouse_hook_event_proc(0, i.wParam, i.hiword, i.same_place, FALSE, 0)

SpecHook == Init /\ [][NextHook]_vars

\* A session that starts, and its first callback: any message, with any
\* nCode, any verdict of the user's handler and any answer of CallNextHookEx.
NextVerdict ==
  \/ \E mode \in RunModes, env \in RunEnvOk : run(mode[1], mode[2], env)
  \/ /\ cb = NoCallback
     /\ \E nCode \in nCodes, i \in KeyboardInputs,
           consume \in BOOLEAN, next_result \in NextResults :
          keyboard_hook_event_proc(nCode, i.wParam, i.kbhook, consume, next_result)
  \/ /\ cb = NoCallback
     /\ \E nCode \in nCodes, i \in MouseInputs,
           consume \in BOOLEAN, next_result \in NextResults :
          mouse_hook_event_proc(nCode, i.wParam, i.hiword, i.same_place, consume, next_result)

SpecVerdict == Init /\ [][NextVerdict]_vars

\* The lookups on every native code of one byte.  flags are the bits of
\* KBDLLHOOKSTRUCT.flags: extended (0x01), injected (0x10), up (0x80).
NativeCodes == 0..255

LookupFlags == {0, 1, 16, 17, 128, 129}

InitTables ==
  /\ InitProgram
  /\ InitRunLoop /\ post = NoPost
  /\ posted_down = NoPostedDown
  /\ tbl \in [ platform : {"windows"}, native : NativeCodes, flags : LookupFlags,
                done : {FALSE}, vcode : {0}, back : {0} ]
           \cup [ platform : {"darwin"}, native : NativeCodes, flags : {0},
                   done : {FALSE}, vcode : {0}, back : {0} ]

NextTables ==
  \/ windows_round_trip
  \/ darwin_round_trip

SpecTables == InitTables /\ [][NextTables]_vars

\* What the OS may answer to one call of hook_post_event or hook_post_text:
\* at most one of calloc and SendInput fails, in the call or in the call
\* map_mouse_event makes; extended is the high byte of the scan code
\* MapVirtualKeyW gives; cursor is where GetCursorPos finds the pointer.
PostEnv ==
  { e \in [ calloc : BOOLEAN, nested_calloc : BOOLEAN, send : BOOLEAN,
            nested_send : BOOLEAN, extended : BOOLEAN, cursor_ok : BOOLEAN,
            cursor : { <<1, 1>> } ] :
      Cardinality({ok \in { <<1, e.calloc>>, <<2, e.nested_calloc>>, <<3, e.send>>,
                            <<4, e.nested_send>> } : ~ok[2]}) <= 1 }

\* ... and the answers under which every call succeeds and no key is extended.
PostEnvOk ==
  { e \in PostEnv : e.calloc /\ e.nested_calloc /\ e.send /\ e.nested_send
                    /\ ~e.extended /\ e.cursor_ok }

\* Key events: a letter, a modifier, the two Enter keys, VC_UNDEFINED and a
\* code no table holds.
PostKeycodes == {VC_A, VC_SHIFT_L, VC_ENTER, VC_KP_ENTER, VC_UNDEFINED, 65535}

KeyEvents ==
  { [ NoEvent EXCEPT !.type = t, !.keycode = k, !.mask = mk ] :
      t \in {"EVENT_KEY_PRESSED", "EVENT_KEY_RELEASED"}, k \in PostKeycodes,
      mk \in {0, MASK_ALT_L} }

\* Button events: no button, the left button, an X button and a button
\* beyond MOUSE_BUTTON5, at a point of the primary monitor.
ButtonEvents ==
  { [ NoEvent EXCEPT !.type = t, !.button = b, !.x = 10, !.y = 20 ] :
      t \in PressTypes \cup ReleaseTypes,
      b \in {MOUSE_NOBUTTON, MOUSE_BUTTON1, MOUSE_BUTTON4, 6} }

WheelEvents ==
  { [ NoEvent EXCEPT !.type = "EVENT_MOUSE_WHEEL", !.direction = d, !.rotation = r ] :
      d \in {WHEEL_VERTICAL_DIRECTION, WHEEL_HORIZONTAL_DIRECTION}, r \in {-1, 1} }

\* Events hook_post_event does not post: the types its switch names without
\* a handler and a type outside the enumeration, with the key and the button
\* of an event it would post.
OtherTypes ==
  {"EVENT_KEY_TYPED", "EVENT_MOUSE_CLICKED", "EVENT_HOOK_ENABLED", "EVENT_HOOK_DISABLED",
   "unknown"}

OtherEvents ==
  { [ NoEvent EXCEPT !.type = t, !.keycode = VC_A, !.button = MOUSE_BUTTON1,
                     !.x = 10, !.y = 20 ] : t \in OtherTypes }

\* Pointer moves to the corners of the virtual screen of two monitors side by
\* side and to points next to them, a drag and a move relative to the pointer.
MoveEvents ==
  { [ NoEvent EXCEPT !.type = "EVENT_MOUSE_MOVED", !.x = x, !.y = y ] :
      x \in {-1920, -1, 0, 1919}, y \in {0, 1079} }
    \cup { [ NoEvent EXCEPT !.type = t, !.x = 0, !.y = 10 ] :
            t \in {"EVENT_MOUSE_DRAGGED", "EVENT_MOUSE_MOVED_RELATIVE_TO_CURSOR"} }

\* The texts: NULL, the empty text and every text of the code units of "a"
\* and of a surrogate pair, up to MaxText units.
RECURSIVE TextsOf(_)
TextsOf(n) ==
  IF n = 0 THEN { << >> }
  ELSE TextsOf(n - 1)
       \cup { Append(t, u) : t \in { s \in TextsOf(n - 1) : Len(s) = n - 1 },
                             u \in {97, 55357, 56832} }

PostTexts ==
  { [ null |-> TRUE, units |-> << >> ] }
    \cup { [ null |-> FALSE, units |-> t ] : t \in TextsOf(MaxText) }

\* The answers that matter to a key event, a mouse event and a text.
KeyEnv == { e \in PostEnv : e.nested_calloc /\ e.nested_send /\ e.cursor_ok }
MouseEnv == { e \in PostEnv : ~e.extended /\ e.cursor_ok }
TextEnv == { e \in PostEnv : e.nested_calloc /\ e.nested_send /\ ~e.extended /\ e.cursor_ok }

\* macOS: CGEventSourceCreate and the CGEventCreate...Event call may return
\* NULL; garbage is what a caller of hook_post_text may read as its result.
DarwinEnv ==
  { e \in [ source_ok : BOOLEAN, create_ok : BOOLEAN, cursor : { <<1, 1>> },
            garbage : {UIOHOOK_SUCCESS} ] :
      e.source_ok \/ e.create_ok }

DarwinTextEnv ==
  [ source_ok : {TRUE}, create_ok : BOOLEAN, cursor : { <<1, 1>> },
    garbage : {UIOHOOK_SUCCESS, UIOHOOK_FAILURE, 77} ]

\* X11: the display may be missing and each XTest request may fail; keycode
\* is what vcode_to_keycode finds in the key map that was loaded.
X11Env ==
  { e \in [ display_ok : BOOLEAN, fake_ok : BOOLEAN, release_ok : BOOLEAN,
            motion_ok : BOOLEAN, cursor_ok : BOOLEAN, cursor : { <<1, 1>> },
            keycode : {0, 38}, wheel_button : {4} ] :
      Cardinality({ok \in { <<1, e.display_ok>>, <<2, e.fake_ok>>, <<3, e.release_ok>>,
                            <<4, e.motion_ok>>, <<5, e.cursor_ok>> } : ~ok[2]}) <= 1 }

\* The monitor arrangements: the primary monitor alone, with a second one to
\* its left, or with a second one above it.
Layouts ==
  { { << 0, 0, 1920, 1080 >> },
    { << 0, 0, 1920, 1080 >>, << -1920, 0, 0, 1080 >> },
    { << 0, 0, 1920, 1080 >>, << 0, -1080, 1920, 0 >> },
    { << 0, 0, 1920, 1080 >>, << -1920, 0, 0, 1080 >>, << -3840, -1080, -1920, 0 >> } }

\* The events posted on macOS and X11: those above and three pointer moves.
DarwinEvents ==
  KeyEvents \cup ButtonEvents \cup WheelEvents \cup OtherEvents
    \cup { [ NoEvent EXCEPT !.type = t, !.x = 10, !.y = 20 ] : t \in MoveTypes }

\* The build is for one of the three platforms.
InitPost ==
  /\ InitProgram
  /\ InitRunLoop
  /\ posted_down = NoPostedDown
  /\ tbl = NoLookup
  /\ \E platform \in {"windows", "darwin", "x11"} :
       post = [ NoPost EXCEPT !.platform = platform ]

\* Synthesis of keys, buttons, wheel turns and text by a thread of the
\* application, with every answer of the OS, on each platform.
NextPost ==
  \/ \E event \in KeyEvents, env \in KeyEnv : hook_post_event(AppThread, event, env)
  \/ \E event \in ButtonEvents \cup WheelEvents \cup OtherEvents, env \in MouseEnv :
       hook_post_event(AppThread, event, env)
  \/ \E text \in PostTexts, env \in TextEnv : hook_post_text(AppThread, text, env)
  \/ \E event \in DarwinEvents, env \in DarwinEnv :
       darwin_hook_post_event(AppThread, event, env)
  \/ \E text \in PostTexts, env \in DarwinTextEnv :
       darwin_hook_post_text(AppThread, text, env)
  \/ \E event \in DarwinEvents, env \in X11Env :
       x11_hook_post_event(AppThread, event, env)

SpecPost == InitPost /\ [][NextPost]_vars

\* Pointer moves posted by the hook thread and by another thread while the
\* monitors are rearranged, with and without a session that sees the change.
NextScreen ==
  \/ \E env \in RunEnvOk : env.held = {} /\ run(FALSE, TRUE, env)
  \/ message_loop
  \/ \E layout \in Layouts : display_change(layout)
  \/ \E thread \in {HookThread, AppThread}, event \in MoveEvents, env \in PostEnvOk :
       /\ thread = HookThread => pc = "loop"
       /\ hook_post_event(thread, event, env)

SpecScreen == Init /\ [][NextScreen]_vars

\* The key events posted into a running session: a letter and the two
\* Enter keys, with every call succeeding and either answer of MapVirtualKeyW.
LoopEvents ==
  { e \in KeyEvents : e.mask = 0 /\ e.keycode \in {VC_A, VC_ENTER, VC_KP_ENTER} }

LoopEnv ==
  { e \in KeyEnv : e.calloc /\ e.nested_calloc /\ e.send /\ e.nested_send }

\* A session with the keyboard hook, key events posted by a thread of the
\* application while it runs, and the hook called with what was injected.
NextLoop ==
  \/ \E env \in RunEnvOk : env.held = {} /\ run(TRUE, FALSE, env)
  \/ \E event \in LoopEvents, env \in LoopEnv :
       pc = "loop" /\ hook_post_event(AppThread, event, env)
  \/ \E nchars \in {0, 1}, consume \in BOOLEAN :
       keyboard_hook_injected(nchars, consume, 0)

SpecLoop == Init /\ [][NextLoop]_vars

\* What load_input_helper meets: the two symbols found or not, the call of
\* create_main_runloop_info that fails, whether the free of fields never
\* written returns, and the modifier held.
LoadEnv ==
  { e \in [ dlsym_ok : BOOLEAN,
            fail : {"none", "malloc", "calloc", "observer", "source"},
            garbage_ok : BOOLEAN, held : {0, MASK_SHIFT_L} ] :
      /\ e.dlsym_ok => e.fail = "none"
      /\ ~e.garbage_ok => e.fail \in {"calloc", "observer"} }

\* The macOS build with the hook thread, the main thread and its run loop.
InitDarwin ==
  /\ InitProgram
  /\ InitRunLoop
  /\ posted_down = NoPostedDown
  /\ tbl = NoLookup
  /\ post = [ NoPost EXCEPT !.platform = "darwin" ]

NextRunLoop ==
  \/ \E thread \in {HookThread, MainThread}, env \in LoadEnv : load_input_helper(thread, env)
  \/ unload_input_helper
  \/ \E thread \in {HookThread, MainThread}, produced \in 0..MaxChars :
       event_to_unicode(thread, produced)
  \/ \E get_faults \in BOOLEAN : event_to_unicode_signal(get_faults)
  \/ event_to_unicode_return
  \/ CFRunLoopRun
  \/ main_runloop_serves
  \/ main_runloop_status_proc

SpecRunLoop == InitDarwin /\ [][NextRunLoop]_vars

(***************************************************************************)
(* The properties checked.                                                 *)
(***************************************************************************)
\* The events the last callback dispatched.
CallbackEvents == { cb.events[i] : i \in 1..Len(cb.events) }

\* MASK_BUTTONb of MOUSE_BUTTONb, b in 1..5
MaskOfButton(b) ==
  CASE b = MOUSE_BUTTON1 -> MASK_BUTTON1
    [] b = MOUSE_BUTTON2 -> MASK_BUTTON2
    [] b = MOUSE_BUTTON3 -> MASK_BUTTON3
    [] b = MOUSE_BUTTON4 -> MASK_BUTTON4
    [] b = MOUSE_BUTTON5 -> MASK_BUTTON5

\* C1: a hook callback calls CallNextHookEx, and returns what it returned,
\* exactly when nCode < 0 or the event was not consumed; otherwise it returns
\* a non-zero value without calling it; a message the callback does not
\* handle is never consumed.
C1_CallNextHookEx ==
  cb.proc # "none" =>
    /\ cb.called_next <=> (cb.nCode < 0 \/ ~cb.consumed)
    /\ cb.called_next => cb.hook_result = cb.next_result
    /\ ~cb.called_next => cb.hook_result # 0
    /\ ~cb.handled => ~cb.consumed

\* A consumed event with nCode >= 0: the chain is not called.
C1_Witness ==
  /\ cb.proc = "mouse"
  /\ cb.handled
  /\ cb.nCode >= 0
  /\ cb.consumed
  /\ ~cb.called_next
  /\ cb.hook_result = -1

\* C2: every dispatched event carries the mask get_modifiers returns while the
\* handler sees it, and that mask already holds the event's own contribution:
\* it is the mask the callback leaves behind.
C2_EventMaskIsCurrent ==
  \A e \in CallbackEvents :
    /\ e.mask = e.seen
    /\ e.mask = get_modifiers(cb.mask_after)

\* A right-button press from an empty mask: the event already carries MASK_BUTTON2.
C2_Witness ==
  /\ cb.proc = "mouse"
  /\ Len(cb.events) = 1
  /\ cb.events[1].type = "EVENT_MOUSE_PRESSED"
  /\ cb.events[1].code = MOUSE_BUTTON2
  /\ cb.events[1].mask = MASK_BUTTON2
  /\ modifier_mask = MASK_BUTTON2

\* C3: no MOUSE_MOVED event is dispatched while one of MASK_BUTTON1..5 is set
\* in the modifier mask.
C3_NoMoveWhileButtonDown ==
  \A e \in CallbackEvents :
    e.type = "EVENT_MOUSE_MOVED" => BitAnd(e.seen, AnyButtonMask) = 0

\* A pointer move with a button bit set, dispatched as MOUSE_DRAGGED.
C3_Witness ==
  /\ cb.proc = "mouse"
  /\ Len(cb.events) = 1
  /\ cb.events[1].type = "EVENT_MOUSE_DRAGGED"
  /\ BitAnd(cb.events[1].seen, MASK_BUTTON3) # 0

\* C4: each KEY_TYPED event comes right after a KEY_PRESSED of the same
\* keycode or after another KEY_TYPED of that press.
C4_TypedFollowsPressed ==
  \A i \in 1..Len(cb.events) :
    cb.events[i].type = "EVENT_KEY_TYPED" =>
      /\ i > 1
      /\ cb.events[i - 1].type \in {"EVENT_KEY_PRESSED", "EVENT_KEY_TYPED"}
      /\ cb.events[i - 1].code = cb.events[i].code

\* A key press typed as two UTF-16 code units.
C4_Witness ==
  /\ cb.proc = "keyboard"
  /\ Len(cb.events) = 3
  /\ cb.events[1].type = "EVENT_KEY_PRESSED"
  /\ cb.events[2].type = "EVENT_KEY_TYPED"
  /\ cb.events[3].type = "EVENT_KEY_TYPED"
  /\ cb.events[3].code # VC_UNDEFINED

\* C5: a MOUSE_PRESSED of button b in 1..5 is dispatched with MASK_BUTTONb
\* set, a MOUSE_RELEASED of button b with MASK_BUTTONb clear.
C5_ButtonBitFollowsButton ==
  cb.proc = "mouse" =>
    \A e \in CallbackEvents :
      e.code \in MOUSE_BUTTON1..MOUSE_BUTTON5 =>
        /\ e.type = "EVENT_MOUSE_PRESSED" => BitAnd(e.seen, MaskOfButton(e.code)) # 0
        /\ e.type = "EVENT_MOUSE_RELEASED" => BitAnd(e.seen, MaskOfButton(e.code)) = 0

\* C6: once hook_stop has posted both messages to a running session, the
\* message loop ends and run returns UIOHOOK_SUCCESS.
C6_StopEndsRun == stop_done ~> (pc = "idle" /\ run_ret = UIOHOOK_SUCCESS)

\* run has returned UIOHOOK_SUCCESS after such a hook_stop.
C6_Witness == ended_by_stop /\ pc = "idle" /\ run_ret = UIOHOOK_SUCCESS

\* C7: after initialize_modifiers, get_modifiers is exactly the bits the OS
\* poll reported, whatever the mask was before.
C7_FreshMaskIsPolled ==
  init_poll.fresh =>
    get_modifiers(modifier_mask)
      = poll_modifiers((IF init_poll.keyboard THEN keyboard_polls ELSE << >>)
                         \o (IF init_poll.mouse THEN mouse_polls ELSE << >>),
                       init_poll.held, 0)

\* C8: when run returns UIOHOOK_ERROR_SET_WINDOWS_HOOK_EX no hook is installed
\* and the invisible window it created is gone.
C8_HookFailureTearsDown ==
  (pc = "idle" /\ run_ret = UIOHOOK_ERROR_SET_WINDOWS_HOOK_EX) =>
    /\ os_hooks = {}
    /\ invisible_win_hwnd \notin os_windows

\* C9 as stated: the round trip of a native code gives that code back, or the
\* forward lookup is VC_UNDEFINED.
C9_RoundTripIsIdentity ==
  tbl.done => (tbl.vcode = VC_UNDEFINED \/ tbl.back = tbl.native)

\* The native codes of the Windows table that are listed below another code
\* of the same virtual code, each with that first-listed code.
WindowsAliases ==
  { <<VK_OEM_CLEAR, VK_CLEAR>>, <<VK_SHIFT, VK_LSHIFT>>,
    <<VK_CONTROL, VK_LCONTROL>>, <<VK_MENU, VK_LMENU>> }

\* C9: the round trip of a native code gives that code back, or the forward
\* lookup is VC_UNDEFINED, or the code is one of the four Windows aliases and
\* the round trip gives the first-listed code of its virtual code.
C9_RoundTrip ==
  tbl.done =>
    \/ tbl.vcode = VC_UNDEFINED
    \/ tbl.back = tbl.native
    \/ tbl.platform = "windows" /\ <<tbl.native, tbl.back>> \in WindowsAliases

\* VK_SHIFT goes to VC_SHIFT_L and comes back as VK_LSHIFT.
C9_Witness ==
  /\ tbl.done
  /\ tbl.platform = "windows"
  /\ tbl.native = VK_SHIFT
  /\ tbl.vcode # VC_UNDEFINED
  /\ tbl.back = VK_LSHIFT

\* C10: Windows keycode_to_vcode gives VC_KP_ENTER for VK_RETURN with the
\* extended-key flag and VC_ENTER without it; for any other code the result
\* is the one with no flag set.
C10_ExtendedEnter ==
  (tbl.done /\ tbl.platform = "windows") =>
    IF tbl.native = VK_RETURN
    THEN tbl.vcode = (IF (tbl.flags % 2) = 1 THEN VC_KP_ENTER ELSE VC_ENTER)
    ELSE tbl.vcode = keycode_to_vcode(tbl.native, 0)

\* VK_RETURN with the extended and the up flag set.
C10_Witness ==
  /\ tbl.done
  /\ tbl.platform = "windows"
  /\ tbl.native = VK_RETURN
  /\ tbl.flags = 129
  /\ tbl.vcode = VC_KP_ENTER

(***************************************************************************)
(* Event synthesis                                                         *)
(***************************************************************************)
\* The vcode_keycode_table of the platform has no row for the virtual code.
NoNativeMapping(table, vcode) == \A i \in 1..Len(table) : table[i][1] # vcode

\* The last synthesis call was hook_post_event of a key event whose key code
\* the platform cannot map: no row of the table on Windows and macOS, no key
\* code in the loaded key map on X11.
UnmappedKeyPosted ==
  /\ post.fn = "hook_post_event"
  /\ post.event.type \in {"EVENT_KEY_PRESSED", "EVENT_KEY_RELEASED"}
  /\ \/ post.platform = "windows"
        /\ NoNativeMapping(win_vcode_keycode_table, post.event.keycode)
     \/ post.platform = "darwin"
        /\ NoNativeMapping(darwin_vcode_keycode_table, post.event.keycode)
     \/ post.platform = "x11" /\ post.keycode = 0

\* C11, as stated: hook_post_event of KEY_PRESSED or KEY_RELEASED with a key
\* code that has no native mapping (VC_UNDEFINED included) returns
\* UIOHOOK_FAILURE and injects nothing.
C11_UnmappedKeyReturnsFailure ==
  UnmappedKeyPosted => post.status = UIOHOOK_FAILURE /\ post.calls = << >>

\* C11, amended: such a call injects nothing and returns a non-success
\* status: UIOHOOK_FAILURE, or the status of the step that failed before the
\* lookup (UIOHOOK_ERROR_OUT_OF_MEMORY when the allocation of the input or of
\* the event source fails, UIOHOOK_ERROR_X_OPEN_DISPLAY without a display).
C11_UnmappedKeyIsRejected ==
  UnmappedKeyPosted =>
    /\ post.calls = << >>
    /\ post.status \in {UIOHOOK_FAILURE, UIOHOOK_ERROR_OUT_OF_MEMORY,
                        UIOHOOK_ERROR_X_OPEN_DISPLAY}
    /\ post.status = UIOHOOK_ERROR_OUT_OF_MEMORY => post.platform \in {"windows", "darwin"}
    /\ post.status = UIOHOOK_ERROR_X_OPEN_DISPLAY => post.platform = "x11"

\* A key release of VC_UNDEFINED was posted on Windows with the input
\* allocated, and was refused by the lookup.
C11_Witness ==
  /\ UnmappedKeyPosted
  /\ post.platform = "windows"
  /\ post.event.type = "EVENT_KEY_RELEASED"
  /\ post.event.keycode = VC_UNDEFINED
  /\ post.status = UIOHOOK_FAILURE

\* (x, y) lies in the virtual-screen rectangle of the monitors.
InVirtualScreen(x, y, monitors) ==
  /\ VirtualScreenLeft(monitors) <= x
  /\ x < VirtualScreenLeft(monitors) + VirtualScreenWidth(monitors)
  /\ VirtualScreenTop(monitors) <= y
  /\ y < VirtualScreenTop(monitors) + VirtualScreenHeight(monitors)

\* The last synthesis call was a Windows pointer move to absolute
\* coordinates that reached SendInput.
MovePosted ==
  /\ post.platform = "windows"
  /\ post.fn = "hook_post_event"
  /\ post.event.type \in {"EVENT_MOUSE_MOVED", "EVENT_MOUSE_DRAGGED"}
  /\ post.calls # << >>

\* C12: on Windows, for every (x, y) inside the virtual-screen rectangle the
\* normalized coordinates are in 0..65535 on both axes, and they do not
\* decrease when x or y grows.
C12_NormalizedInRange ==
  (MovePosted /\ InVirtualScreen(post.event.x, post.event.y, post.monitors)) =>
    /\ post.calls[1].dx \in 0..MAX_WINDOWS_COORD_VALUE
    /\ post.calls[1].dy \in 0..MAX_WINDOWS_COORD_VALUE
    /\ \A e2 \in MoveEvents :
         (/\ InVirtualScreen(e2.x, e2.y, post.monitors)
          /\ post.event.x <= e2.x
          /\ post.event.y <= e2.y)
         => \E nc \in {normalize_coordinates(e2.x, e2.y, post.cache, post.monitors)} :
              post.calls[1].dx <= nc.x /\ post.calls[1].dy <= nc.y

\* The virtual screen of the last move has left = -1920 and width = 3840,
\* and the monitor cache the call used holds that left edge.
WideScreenMovePosted ==
  /\ MovePosted
  /\ post.event.type = "EVENT_MOUSE_MOVED"
  /\ VirtualScreenLeft(post.monitors) = -1920
  /\ VirtualScreenWidth(post.monitors) = 3840
  /\ post.cache.left = -1920

\* C13: with a virtual screen of left = -1920 and width = 3840 a move to
\* x = -1920 is injected with dx = 0 and a move to x = 1919 with dx = 65535.
C13_EdgesOfVirtualScreen ==
  WideScreenMovePosted =>
    /\ post.event.x = -1920 => post.calls[1].dx = 0
    /\ post.event.x = 1919 => post.calls[1].dx = MAX_WINDOWS_COORD_VALUE

\* The last synthesis call was hook_post_event of a press or release of
\* button 1..5 on Windows or X11, and it returned UIOHOOK_SUCCESS.
ButtonPosted ==
  /\ post.platform \in {"windows", "x11"}
  /\ post.fn = "hook_post_event"
  /\ post.event.type \in PressTypes \cup ReleaseTypes
  /\ post.event.button \in MOUSE_BUTTON1..MOUSE_BUTTON5
  /\ post.status = UIOHOOK_SUCCESS

\* The native call is a pointer move that was injected.
IsMove(c) ==
  /\ c.ok
  /\ \/ post.platform = "windows" /\ c.kind = "mouse" /\ "MOUSEEVENTF_MOVE" \in c.flags
     \/ post.platform = "x11" /\ c.kind = "motion"

\* The native call is a button press or release that was injected.
IsButton(c) ==
  /\ c.ok
  /\ \/ post.platform = "windows" /\ c.kind = "mouse" /\ "MOUSEEVENTF_MOVE" \notin c.flags
     \/ post.platform = "x11" /\ c.kind = "button"

\* C14: on Windows and X11 a MOUSE_PRESSED or MOUSE_RELEASED with a valid
\* button injects a pointer move and then the button event, in that order;
\* the _IGNORE_COORDS variants inject the button event alone.
C14_MoveThenButton ==
  ButtonPosted =>
    IF post.event.type \in {"EVENT_MOUSE_PRESSED", "EVENT_MOUSE_RELEASED"}
    THEN Len(post.calls) = 2 /\ IsMove(post.calls[1]) /\ IsButton(post.calls[2])
    ELSE Len(post.calls) = 1 /\ IsButton(post.calls[1])

\* C15: a hook_post_event or hook_post_text that returns a non-success status
\* leaves the session state as it was: the modifier mask, and on macOS the
\* shadow modifier flags and the current motion event type and button.
C15_FailedPostLeavesState ==
  [][ (post' # post /\ post'.status # UIOHOOK_SUCCESS)
        => (modifier_mask' = modifier_mask /\ darwin_post_vars' = darwin_post_vars) ]_vars

\* C16: hook_post_event, and hook_post_text of a text that is not NULL,
\* return UIOHOOK_SUCCESS only if every native injection call they made
\* succeeded, and a defined non-success status when one of them failed.
C16_StatusReportsInjection ==
  (post.fn \in {"hook_post_event", "hook_post_text"} /\ ~post.null) =>
    /\ post.status = UIOHOOK_SUCCESS => \A i \in 1..Len(post.calls) : post.calls[i].ok
    /\ (\E i \in 1..Len(post.calls) : ~post.calls[i].ok)
         => post.status \in {UIOHOOK_FAILURE, UIOHOOK_ERROR_OUT_OF_MEMORY}
    /\ post.status \in {UIOHOOK_SUCCESS, UIOHOOK_FAILURE, UIOHOOK_ERROR_OUT_OF_MEMORY,
                        UIOHOOK_ERROR_X_OPEN_DISPLAY}

\* C19: the modifier mask and the monitor cache (left, top,
\* monitors_enumerated) are written by the hook thread only: a hook_post_event
\* of another thread never writes the monitor cache.
C19_OnlyHookThreadWritesCache ==
  post.wrote_cache => post.thread = HookThread

\* C20: when hook_post_event succeeds for a key event in a running session
\* and the handler does not consume what the hook captures of it, the event
\* dispatched has the posted type and the posted key code: the posted virtual
\* code, translated to its native code and back, is the posted virtual code.
C20_PostedKeyIsCaptured ==
  (injected # NoInjected /\ cb.proc = "keyboard" /\ ~cb.consumed) =>
    \E e \in CallbackEvents :
      e.type = injected.posted.type /\ e.code = injected.posted.keycode

\* The last call of event_to_unicode was made off the main run loop, without
\* dispatch_sync_f, with the main run loop running and main_runloop_info
\* created by load_input_helper, and it has returned.
FallbackCallReturned ==
  /\ tis_keycode_message.pc = "returned"
  /\ tis_keycode_message.thread # MainThread
  /\ tis_keycode_message.path = "runloop"
  /\ tis_keycode_message.mode
  /\ tis_keycode_message.info

\* C17: on macOS such a call has signaled the run-loop source, the Unicode
\* lookup has run on the main thread before the call returned, and the call
\* returns the length the lookup produced.
C17_FallbackLookupOnMain ==
  FallbackCallReturned =>
    /\ tis_keycode_message.signaled
    /\ tis_keycode_message.lookup = MainThread
    /\ tis_keycode_message.length = tis_keycode_message.produced

\* The last synthesis call was a Windows key event that reached SendInput.
KeyPosted ==
  /\ post.platform = "windows"
  /\ post.fn = "hook_post_event"
  /\ post.event.type \in {"EVENT_KEY_PRESSED", "EVENT_KEY_RELEASED"}
  /\ post.calls # << >>

\* C21: in Windows key synthesis the ALT-down flag is among the flags of the
\* injected key exactly when the mask of the event holds MASK_ALT_L or
\* MASK_ALT_R.
C21_AltDownIffAltMask ==
  KeyPosted =>
    ("KF_ALTDOWN" \in post.calls[1].flags
       <=> BitAnd(post.event.mask, MASK_ALT_L + MASK_ALT_R) # 0)

\* The keyboard-modifier bits (MASK_SHIFT_L .. MASK_ALT_R) and the lock bits
\* (MASK_NUM_LOCK, MASK_CAPS_LOCK, MASK_SCROLL_LOCK) of a mask.
KeyboardAndLockBits(m) == BitAnd(m, (U16 - 1) - AnyButtonMask)

\* C22: a call of the Windows mouse hook changes only the bits
\* MASK_BUTTON1..MASK_BUTTON5 of the modifier mask: its keyboard-modifier
\* bits and lock bits are after the call what they were before it.
C22_MouseHookKeepsKeyBits ==
  [][ cb'.proc = "mouse"
        => KeyboardAndLockBits(modifier_mask') = KeyboardAndLockBits(modifier_mask) ]_vars

\* The button number the calls of a callback pass to the dispatch function op.
DispatchedButton(calls, op) ==
  (CHOOSE c \in { calls[k] : k \in 1..Len(calls) } : c.op = op).arg

\* The X-button-up messages with their HIWORD(mouseData).
XButtonUpInputs == { i \in MouseInputs : i.wParam \in {"WM_XBUTTONUP", "WM_NCXBUTTONUP"} }

\* C23: when the Windows mouse hook is called with an X-button-up message, the
\* button number it passes to dispatch_button_release (the button of the
\* MOUSE_RELEASED event) is the one it passes to dispatch_button_press for the
\* button-down message with the same HIWORD(mouseData).
C23_ReleaseIsDecodedButton ==
  [][ \A i \in XButtonUpInputs :
        mouse_hook_event_proc(0, i.wParam, i.hiword, i.same_place, FALSE, 0)
          => /\ cb'.events[1].type = "EVENT_MOUSE_RELEASED"
             /\ cb'.events[1].code
                  = DispatchedButton(mouse_hook_calls("WM_XBUTTONDOWN", i.hiword),
                                     "dispatch_button_press") ]_vars

\* C25: in every call of run HOOK_DISABLED is dispatched only after
\* HOOK_ENABLED was dispatched in that call, and a run that fails before or
\* during the installation of the hooks dispatches neither.
C25_DisabledOnlyAfterEnabled ==
  /\ \A i \in 1..Len(hook_events) :
       hook_events[i] = "EVENT_HOOK_DISABLED"
         => \E j \in 1..(i - 1) : hook_events[j] = "EVENT_HOOK_ENABLED"
  /\ (pc = "idle" /\ run_ret \in { UIOHOOK_ERROR_GET_MODULE_HANDLE,
                                   UIOHOOK_ERROR_CREATE_INVISIBLE_WINDOW,
                                   UIOHOOK_ERROR_SET_WINDOWS_HOOK_EX })
       => hook_events = << >>

\* Sessions that start, and one call of hook_stop in all: no call of
\* hook_stop begins once one has returned.
NextRestart ==
  \/ \E mode \in RunModes, env \in RunEnvOk : run(mode[1], mode[2], env)
  \/ message_loop
  \/ stop_status = NoStatus /\ hook_stop_post_close
  \/ hook_stop_post_quit

SpecRestart == Init /\ [][NextRestart]_vars

\* C29: one hook_stop ends at most one session: with a single call of
\* hook_stop, a session that run starts on the same thread after the session
\* that call ended keeps running, run does not return.
C29_OneStopEndsOneSession ==
  [][ (ended_by_stop /\ pc = "loop") => pc' = "loop" ]_vars


(***************************************************************************)
(* Two threads call run; hook_stop is called against whatever the statics  *)
(* name.                                                                   *)
(***************************************************************************)
\* What the OS answers to run when no key or button is held and the window
\* is created: both hooks are installed, or one of them is refused.
RunEnvIdle == { e \in RunEnv : e.held = {} /\ e.module_ok /\ e.register_ok /\ e.create_ok }

\* run is called by the other thread while the hook thread is in its loop.
SecondRun(mode, env) == pc = "loop" /\ other_run(mode[1], mode[2], env)

NextSessions ==
  \/ \E mode \in RunModes, env \in RunEnvIdle : run(mode[1], mode[2], env)
  \/ \E mode \in RunModes, env \in RunEnvIdle : SecondRun(mode, env)
  \/ message_loop
  \/ other_message_loop
  \/ stop_status = NoStatus /\ hook_stop_post_close
  \/ hook_stop_post_quit

SpecSessions == Init /\ [][NextSessions]_vars

\* C28: a call of run made while a session is active installs no second set
\* of hooks and leaves the hook thread id, the two hook handles and the
\* window handle of the active session as they were.
C28_SecondRunLeavesSession ==
  [][ \A mode \in RunModes, env \in RunEnvIdle :
        SecondRun(mode, env)
          => /\ other'.hooks = {}
             /\ hook_thread_id' = hook_thread_id
             /\ keyboard_event_hhook' = keyboard_event_hhook
             /\ mouse_event_hhook' = mouse_event_hhook
             /\ invisible_win_hwnd' = invisible_win_hwnd ]_vars

\* run on the hook thread returns, having tried to install its hooks.
RunReturnsAfterInstall ==
  \/ pc = "loop" /\ message_loop /\ pc' = "idle"
  \/ \E mode \in RunModes, env \in RunEnvIdle :
       run(mode[1], mode[2], env) /\ run_ret' = UIOHOOK_ERROR_SET_WINDOWS_HOOK_EX

\* C24: when run returns after it tried to install its hooks, by a stop or by
\* a failure, both handles are NULL and none of its hooks is still installed.
C24_ReturnLeavesNoHook ==
  [][ RunReturnsAfterInstall
        => /\ keyboard_event_hhook' = NULL
           /\ mouse_event_hhook' = NULL
           /\ os_hooks' = {} ]_vars


(***************************************************************************)
(* Unicode lookups on the main run loop of macOS while the keyboard layout *)
(* is changed.                                                             *)
(***************************************************************************)
\* Two keyboard layouts, and NULL for an input source that cannot be copied.
KeyboardLayouts == {NULL, 1, 2}

NextUnicode ==
  \/ \E env \in LoadEnv : load_input_helper(MainThread, env)
  \/ \E produced \in 0..MaxChars : event_to_unicode(MainThread, produced)
  \/ \E layout \in KeyboardLayouts : keyboard_layout_changes(layout)

SpecUnicode == InitDarwin /\ [][NextUnicode]_vars

\* The dead-key state handed to UCKeyTranslate is clear or was left by a dead
\* key of the layout that translates.
TranslatesWithOwnState ==
  uc_translate.state \in {0, DeadKeyState(uc_translate.layout)}

\* C26: no key is translated under one layout with the dead-key state that a
\* key of another layout left, and every load_input_helper leaves the
\* dead-key state zero.
C26_DeadKeyStateOfLayout ==
  [][ /\ TranslatesWithOwnState'
      /\ (\E env \in LoadEnv : load_input_helper(MainThread, env)) => deadkey_state' = 0 ]_vars


(***************************************************************************)
(* Synthesis on X11 by two threads that share helper_disp.                 *)
(***************************************************************************)
\* The depth to which a thread takes the display lock again.
MaxLockLevel == 2

\* What the X server answers to hook_post_text: the display may be missing,
\* no key code may be free, one post_keysym may fail at one of its requests,
\* and the request that clears the key code may fail.
X11TextEnv ==
  { e \in [ display_ok : BOOLEAN, unused_ok : BOOLEAN, unused_keycode : {255},
            fail_at : 0..MaxText, fail : {"none", "mapping", "press", "release"},
            reset_ok : BOOLEAN ] :
      /\ (e.fail_at = 0) <=> (e.fail = "none")
      /\ Cardinality({ok \in { <<1, e.display_ok>>, <<2, e.unused_ok>>,
                               <<3, e.fail_at = 0>>, <<4, e.reset_ok>> } : ~ok[2]}) <= 1 }

\* The X11 build.
InitX11 ==
  /\ InitProgram
  /\ InitRunLoop
  /\ posted_down = NoPostedDown
  /\ tbl = NoLookup
  /\ post = [ NoPost EXCEPT !.platform = "x11" ]

\* The texts posted: NULL, the empty text, a letter and a surrogate pair.
DisplayTexts ==
  { t \in PostTexts : t.units \in { << >>, << 97 >>, << 55357, 56832 >> } }

NextDisplay ==
  \/ \E thread \in {HookThread, AppThread}, event \in KeyEvents,
        env \in X11Env :
       x11_hook_post_event(thread, event, env)
  \/ \E thread \in {HookThread, AppThread}, text \in DisplayTexts, env \in X11TextEnv :
       /\ display_lock.level < MaxLockLevel
       /\ x11_hook_post_text(thread, text, env)

SpecDisplay == InitX11 /\ [][NextDisplay]_vars

\* C27: when a synthesis call on X11 has returned, the display lock it took
\* is released: no thread holds it and any thread can take it.
C27_DisplayLockReleased ==
  post.platform = "x11"
    => /\ display_lock = NoLock
       /\ \A thread \in {HookThread, AppThread} : XLockDisplay_returns(display_lock, thread)


(***************************************************************************)
(* The key map of X11: load_key_mappings against the keyboard description  *)
(* of the server.                                                          *)
(***************************************************************************)
\* The highest key code of a keyboard description.
MaxKeyCode == 3

\* Xkb key names: the two of VC_BACK_SLASH and one the table does not hold.
XkbKeyNames == {"AC12", "BKSL", "AE01"}

\* xkb->min_key_code, xkb->max_key_code and xkb->names->keys[..].name
XkbDescs ==
  UNION { { [ min_key_code |-> lo, max_key_code |-> hi, names |-> n ] :
              n \in [ 1..hi -> XkbKeyNames ] } :
          lo \in 1..2, hi \in 2..MaxKeyCode }

\* What the X server answers to load_key_mappings: each of XkbOpenDisplay,
\* XkbGetMap and XkbGetNames may fail, and xkb is the description it gives.
KeymapEnv ==
  { e \in [ open_ok : BOOLEAN, map_ok : BOOLEAN, names_ok : BOOLEAN, xkb : XkbDescs ] :
      Cardinality({ok \in { <<1, e.open_ok>>, <<2, e.map_ok>>, <<3, e.names_ok>> } :
                     ~ok[2]}) <= 1 }

\* The inner loop of load_key_mappings for one key code: every entry whose
\* x11_key_name is the name of the key gets the key code.
set_x11_key_code(table, name, key_code) ==
  [ i \in 1..Len(table) |->
      IF table[i].x11_key_name = name
      THEN [ table[i] EXCEPT !.x11_key_code = key_code ]
      ELSE table[i] ]

\* for (int key_code = xkb->min_key_code; key_code < xkb->max_key_code; key_code++)
RECURSIVE map_key_codes(_, _, _)
map_key_codes(table, desc, key_code) ==
  IF key_code < desc.max_key_code
  THEN map_key_codes(set_x11_key_code(table, desc.names[key_code], key_code),
                     desc, key_code + 1)
  ELSE table

\* load_key_mappings()
load_key_mappings(env) ==
  /\ post.platform = "x11"
  /\ IF key_mappings_loaded \/ ~env.open_ok \/ ~env.map_ok \/ ~env.names_ok
     THEN UNCHANGED keymap_vars
     ELSE /\ xkb' = env.xkb
          /\ vcode_keycode_table' =
               map_key_codes(vcode_keycode_table, env.xkb, env.xkb.min_key_code)
          /\ key_mappings_loaded' = TRUE
  /\ UNCHANGED << session_vars, monitor_vars, stop_vars, modifier_mask, msg_queue,
                  quit_flag, init_poll, cb, tbl, post, input_vars, darwin_post_vars,
                  runloop_vars, unicode_vars, display_lock >>

\* vcode_to_keycode(vcode) of X11: the slot of the first entry with the
\* virtual code, 0 when no entry has it.
x11_vcode_to_keycode(table, vcode) ==
  IF \E i \in 1..Len(table) : table[i].vcode = vcode
  THEN table[CHOOSE i \in 1..Len(table) :
               /\ table[i].vcode = vcode
               /\ \A j \in 1..(i - 1) : table[j].vcode # vcode].x11_key_code
  ELSE 0

\* vcode_to_keycode(vcode) called on X11, as post_key_event calls it.
x11_key_lookup(vcode) ==
  /\ post.platform = "x11"
  /\ tbl' = [ NoLookup EXCEPT !.platform = "x11", !.done = TRUE, !.vcode = vcode,
                              !.back = x11_vcode_to_keycode(vcode_keycode_table, vcode) ]
  /\ UNCHANGED << session_vars, monitor_vars, stop_vars, modifier_mask, msg_queue,
                  quit_flag, init_poll, cb >>
  /\ UNCHANGED synthesis_vars

\* The virtual codes looked up: one with two entries, one with one entry
\* and one the table does not hold.
LookupVcodes == {"VC_BACK_SLASH", "VC_RFKILL", "VC_UNDEFINED"}

NextKeymap ==
  \/ \E env \in KeymapEnv : load_key_mappings(env)
  \/ \E vcode \in LookupVcodes : x11_key_lookup(vcode)

SpecKeymap == InitX11 /\ [][NextKeymap]_vars

\* The key codes of the description whose key has the name.
KeyCodesNamed(desc, name) ==
  { k \in desc.min_key_code..desc.max_key_code : desc.names[k] = name }

\* C30: once the key map is loaded, every entry of the table whose name is
\* the name of a key in min_key_code..max_key_code, max_key_code included,
\* holds the code of such a key.
C30_EveryNamedKeyMapped ==
  key_mappings_loaded =>
    \A i \in 1..Len(vcode_keycode_table) :
      KeyCodesNamed(xkb, vcode_keycode_table[i].x11_key_name) # {}
        => vcode_keycode_table[i].x11_key_code
             \in KeyCodesNamed(xkb, vcode_keycode_table[i].x11_key_name)


\* The key codes load_key_mappings found for the entries of a virtual code.
DiscoveredKeyCodes(vcode) ==
  { vcode_keycode_table[i].x11_key_code :
      i \in { j \in 1..Len(vcode_keycode_table) :
                /\ vcode_keycode_table[j].vcode = vcode
                /\ vcode_keycode_table[j].x11_key_code # 0 } }

\* C31: on X11 vcode_to_keycode gives a key code that is not 0 for a virtual
\* code of which at least one entry, under any of its key names, was found
\* on the keyboard.
C31_AnyAliasResolves ==
  (tbl.platform = "x11" /\ tbl.done /\ DiscoveredKeyCodes(tbl.vcode) # {})
    => tbl.back # 0


\* The last synthesis call was a hook_post_text of X11 that chose a key code.
TextPostedWithKeycode ==
  post.platform = "x11" /\ post.fn = "hook_post_text" /\ post.keycode # 0

\* The requests of the last call that failed.
FailedRequests == { i \in 1..Len(post.calls) : ~post.calls[i].ok }

WindowsTextPosted ==
  post.platform = "windows" /\ post.fn = "hook_post_text" /\ ~post.null

\* One SendInput call carries the array: two records per code unit, all of
\* them keyboard records flagged KEYEVENTF_UNICODE, and for every code unit
\* a key-down and a later key-up of its own with the unit as scan code.
OneSendInputOfKeyPairs ==
  /\ Len(post.calls) = 1
  /\ post.calls[1].kind = "text"
  /\ post.calls[1].n = 2 * Len(post.text)
  /\ Len(post.input) = 2 * Len(post.text)
  /\ \A i \in 1..Len(post.input) :
       /\ post.input[i].type = "INPUT_KEYBOARD"
       /\ "KEYEVENTF_UNICODE" \in post.input[i].dwFlags
  /\ \E down, up \in [ 1..Len(post.text) -> 1..Len(post.input) ] :
       /\ \A j, k \in 1..Len(post.text) :
            /\ down[j] # up[k]
            /\ j # k => down[j] # down[k] /\ up[j] # up[k]
       /\ \A k \in 1..Len(post.text) :
            /\ down[k] < up[k]
            /\ post.input[down[k]].wScan = post.text[k]
            /\ "KEYEVENTF_KEYUP" \notin post.input[down[k]].dwFlags
            /\ post.input[up[k]].wScan = post.text[k]
            /\ "KEYEVENTF_KEYUP" \in post.input[up[k]].dwFlags

\* C33, as stated: hook_post_text of Windows for a text of n code units makes
\* exactly one SendInput call with 2n keyboard records, a key-down and a
\* later key-up per code unit, each flagged KEYEVENTF_UNICODE with the code
\* unit as its scan code.
C33_OneSendInputPerText == WindowsTextPosted => OneSendInputOfKeyPairs

\* C33, amended: it does so whenever the INPUT array was allocated; when
\* calloc fails it returns UIOHOOK_ERROR_OUT_OF_MEMORY and calls nothing.
C33_OneSendInputWhenAllocated ==
  WindowsTextPosted =>
    IF post.status = UIOHOOK_ERROR_OUT_OF_MEMORY
    THEN post.calls = << >>
    ELSE OneSendInputOfKeyPairs

\* A text of two code units was posted in one call of four records.
C33_Witness ==
  /\ WindowsTextPosted
  /\ Len(post.text) = 2
  /\ post.text[1] # post.text[2]
  /\ Len(post.calls) = 1
  /\ post.calls[1].ok
  /\ Len(post.input) = 4


(***************************************************************************)
(* X11: the code units x_key_event_lookup gives for a key event, and the   *)
(* code points hook_post_text reads from code units.                       *)
(***************************************************************************)

\* The bytes Xutf8LookupString writes for the code point of the key.
Utf8(codepoint) ==
  IF codepoint < 128 THEN << codepoint >>
  ELSE IF codepoint < 2048
  THEN << 192 + (codepoint \div 64), 128 + (codepoint % 64) >>
  ELSE IF codepoint < 65536
  THEN << 224 + (codepoint \div 4096), 128 + ((codepoint \div 64) % 64), 128 + (codepoint % 64) >>
  ELSE << 240 + (codepoint \div 262144), 128 + ((codepoint \div 4096) % 64),
          128 + ((codepoint \div 64) % 64), 128 + (codepoint % 64) >>

utf8_bitmask_table == << 63, 127, 31, 15, 7 >>

\* codepoint = utf8_bitmask_table[count] & buffer[0], then
\* codepoint = (codepoint << 6) | (utf8_bitmask_table[0] & buffer[i])
RECURSIVE utf8_codepoint(_, _, _)
utf8_codepoint(buffer, i, codepoint) ==
  IF i > Len(buffer) THEN codepoint
  ELSE utf8_codepoint(buffer, i + 1,
                      codepoint * 64 + BitAnd(utf8_bitmask_table[1], buffer[i]))

\* The pair with the lead taken from 0xD800 itself.
utf32_to_surrogates_from_d800(codepoint) ==
  << (55296 + (codepoint \div 1024)) % U16, (56320 + (codepoint % 1024)) % U16 >>

\* lead_offset = 0xD800 - (0x10000 >> 10); surrogate[0] = lead_offset +
\* (codepoint >> 10); surrogate[1] = 0xDC00 + (codepoint & 0x3FF)
utf32_to_surrogates(codepoint) ==
  << ((55296 - 64) + (codepoint \div 1024)) % U16, (56320 + (codepoint % 1024)) % U16 >>

\* The end of x_key_event_lookup(x_event, surrogate, length, keysym): the
\* string of count bytes becomes code units in a buffer of length units;
\* has_buffer is surrogate != NULL.
x_lookup_surrogates(buffer, has_buffer, length) ==
  IF Len(buffer) = 0 \/ length = 0 \/ ~has_buffer
  THEN [ count |-> 0, surrogate |-> << >> ]
  ELSE LET codepoint ==
             utf8_codepoint(buffer, 2,
                            BitAnd(utf8_bitmask_table[Len(buffer) + 1], buffer[1]))
       IN IF codepoint <= 65535
          THEN [ count |-> 1, surrogate |-> << codepoint >> ]
          ELSE IF length > 1
          THEN [ count |-> 2, surrogate |-> utf32_to_surrogates(codepoint) ]
          ELSE [ count |-> 0, surrogate |-> << >> ]

\* Nothing was looked up or decoded yet.
NoUnicode ==
  [ NoLookup EXCEPT !.platform = "x11" ]
    @@ [ fn |-> "none", codepoint |-> 0, length |-> 0, count |-> 0,
         surrogate |-> << >>, input |-> << >>, utf32 |-> << >> ]

\* A key event whose string is the code point reaches x_key_event_lookup.
x_key_event_lookup(codepoint, has_buffer, length) ==
  /\ tbl.platform = "x11"
  /\ \E r \in { x_lookup_surrogates(Utf8(codepoint), has_buffer, length) } :
       tbl' = [ NoUnicode EXCEPT !.fn = "x_key_event_lookup", !.codepoint = codepoint,
                                 !.length = IF has_buffer THEN length ELSE 0,
                                 !.count = r.count, !.surrogate = r.surrogate ]
  /\ UNCHANGED << session_vars, monitor_vars, stop_vars, modifier_mask, msg_queue,
                  quit_flag, init_poll, cb >>
  /\ UNCHANGED synthesis_vars

\* hook_post_text reads the code points of a text: map_to_keysyms calls
\* convert_utf16_to_utf32.  The text is one of the texts or the code units
\* the last lookup gave.
x11_text_decoded(input) ==
  /\ tbl.platform = "x11"
  /\ tbl' = [ tbl EXCEPT !.fn = "convert_utf16_to_utf32", !.input = input,
                         !.utf32 = convert_utf16_to_utf32(input) ]
  /\ UNCHANGED << session_vars, monitor_vars, stop_vars, modifier_mask, msg_queue,
                  quit_flag, init_poll, cb >>
  /\ UNCHANGED synthesis_vars

\* Code points of every UTF-8 length; above 0xFFFF the ends and the middle of
\* the lead range and of the trail range.
SurrogateSteps == {0, 1, 511, 512, 1023}

KeyCodepoints ==
  {65, 233, 8364, 55295, 57344, 65535}
    \cup { 65536 + lead * 1024 + trail : lead \in SurrogateSteps, trail \in SurrogateSteps }

InitSurrogate ==
  /\ InitProgram
  /\ InitRunLoop
  /\ posted_down = NoPostedDown
  /\ tbl = NoUnicode
  /\ post = [ NoPost EXCEPT !.platform = "x11" ]

NextSurrogate ==
  \/ \E codepoint \in KeyCodepoints, has_buffer \in BOOLEAN, length \in 0..MaxText :
       x_key_event_lookup(codepoint, has_buffer, length)
  \/ \E input \in TextsOf(MaxText) \cup { tbl.surrogate } : x11_text_decoded(input)

SpecSurrogate == InitSurrogate /\ [][NextSurrogate]_vars

is_high_surrogate(uc) == uc >= 55296 /\ uc <= 56319
is_low_surrogate(uc) == uc >= 56320 /\ uc <= 57343

\* The code units of the input that are surrogates without their partner: a
\* lead with no trail after it, a trail with no lead before it.
Unpaired(input) ==
  { i \in 1..Len(input) :
      \/ /\ is_high_surrogate(input[i])
         /\ ~(i < Len(input) /\ is_low_surrogate(input[i + 1]))
      \/ /\ is_low_surrogate(input[i])
         /\ ~(i > 1 /\ is_high_surrogate(input[i - 1])) }

\* The place in the output of the code point read at code unit i: one less
\* for every pair that ends before i.
OutputIndex(input, i) ==
  i - Cardinality({ j \in 2..(i - 1) :
                      is_high_surrogate(input[j - 1]) /\ is_low_surrogate(input[j]) })

\* C34: a code point of 0x10000..0x10FFFF that x_key_event_lookup splits
\* comes out as a high surrogate followed by a low surrogate; decoding the
\* pair with convert_utf16_to_utf32 gives the code point back; and every
\* unpaired surrogate of a text decodes to U+FFFD.
C34_SurrogatesRoundTrip ==
  /\ (tbl.codepoint >= 65536 /\ tbl.count = 2) =>
       /\ Len(tbl.surrogate) = 2
       /\ is_high_surrogate(tbl.surrogate[1])
       /\ is_low_surrogate(tbl.surrogate[2])
       /\ (tbl.fn = "convert_utf16_to_utf32" /\ tbl.input = tbl.surrogate) =>
            tbl.utf32 = << tbl.codepoint >>
  /\ tbl.fn = "convert_utf16_to_utf32" =>
       \A i \in Unpaired(tbl.input) :
         /\ OutputIndex(tbl.input, i) \in 1..Len(tbl.utf32)
         /\ tbl.utf32[OutputIndex(tbl.input, i)] = 65533

\* U+10FFFF was looked up as DBFF DFFF and decoded again.
C34_Witness ==
  /\ tbl.fn = "convert_utf16_to_utf32"
  /\ tbl.codepoint = 1114111
  /\ tbl.count = 2
  /\ tbl.surrogate = << 56319, 57343 >>
  /\ tbl.input = tbl.surrogate
  /\ tbl.utf32 = << 1114111 >>

\* A text of a lone trail and a lone lead was decoded to two U+FFFD.
C34_WitnessUnpaired ==
  /\ tbl.fn = "convert_utf16_to_utf32"
  /\ tbl.input = << 56832, 55357 >>
  /\ Unpaired(tbl.input) = {1, 2}
  /\ tbl.utf32 = << 65533, 65533 >>


\* The step is a turn of the message loop in which WndProc gets
\* WM_DISPLAYCHANGE for the invisible window.
DisplayChangeHandled ==
  /\ pc = "loop"
  /\ msg_queue # << >>
  /\ Head(msg_queue).message = "WM_DISPLAYCHANGE"
  /\ Head(msg_queue).hwnd # NULL
  /\ Head(msg_queue).hwnd \in os_windows
  /\ msg_queue' = Tail(msg_queue)

\* The step is a hook_post_event of a pointer move, which calls
\* get_largest_negative_coordinates.
CoordinatesAsked ==
  /\ post' # post
  /\ post'.platform = "windows"
  /\ post'.fn = "hook_post_event"
  /\ post'.event.type \in MoveTypes

\* left and top after the step are those of an enumeration of the monitors
\* attached at the step.
EnumeratedInStep ==
  /\ monitors_enumerated'
  /\ left' = Min({0} \cup { r[1] : r \in os_monitors })
  /\ top' = Min({0} \cup { r[2] : r \in os_monitors })

ShadowKeycodes == {VC_SHIFT_L, 45072, 40978, 45074, VC_A}

ShadowEvents ==
  { [ NoEvent EXCEPT !.type = t, !.keycode = k ] :
      t \in {"EVENT_KEY_PRESSED", "EVENT_KEY_RELEASED"}, k \in ShadowKeycodes }
    \cup { [ NoEvent EXCEPT !.type = t, !.button = b, !.x = 10, !.y = 20 ] :
            t \in {"EVENT_MOUSE_PRESSED", "EVENT_MOUSE_RELEASED"},
            b \in {MOUSE_BUTTON1, MOUSE_BUTTON2} }
    \cup { [ NoEvent EXCEPT !.type = t, !.x = 10, !.y = 20 ] :
            t \in {"EVENT_MOUSE_MOVED", "EVENT_MOUSE_DRAGGED"} }

ShadowEnv == { e \in DarwinEnv : e.source_ok /\ e.create_ok }

NextShadow ==
  \E event \in ShadowEvents, env \in ShadowEnv :
    darwin_hook_post_event(AppThread, event, env)

InitShadow ==
  /\ InitProgram
  /\ InitRunLoop
  /\ tbl = NoLookup
  /\ post = [ NoPost EXCEPT !.platform = "darwin" ]
  /\ posted_down = [ NoPostedDown EXCEPT !.recorded = TRUE ]

SpecShadow == InitShadow /\ [][NextShadow]_vars

\* The modifier flags, each with its left and right key.
ModifierFlags ==
  { kCGEventFlagMaskShift, kCGEventFlagMaskControl, kCGEventFlagMaskCommand,
    kCGEventFlagMaskAlternate }

ModifierKeys(flag) ==
  { k \in {VC_SHIFT_L, 45072, 40977, 45073, 41117, 45213, 40978, 45074} :
      darwin_modifier_flag(k) = flag }

\* C36: on macOS, after any sequence of posted key events the flag of a
\* modifier in current_modifier_mask is set exactly when its left or its
\* right key was posted pressed and not posted released since; a release of
\* one side with the other side down leaves the flag set.
C36_ShadowFlagIffKeyDown ==
  \A flag \in ModifierFlags :
    BitAnd(current_modifier_mask, flag) # 0
      <=> posted_down.keys \cap ModifierKeys(flag) # {}


\* The drag event of a button and the button number it carries.
DragOf(button) ==
  IF button = MOUSE_BUTTON1 THEN [ type |-> "kCGEventLeftMouseDragged", code |-> 0 ]
  ELSE IF button = MOUSE_BUTTON2 THEN [ type |-> "kCGEventRightMouseDragged", code |-> 1 ]
  ELSE [ type |-> "kCGEventOtherMouseDragged", code |-> button - 1 ]

\* The last synthesis call on macOS posted a pointer move or drag.
DarwinMovePosted ==
  /\ post.platform = "darwin"
  /\ post.fn = "hook_post_event"
  /\ post.event.type \in {"EVENT_MOUSE_MOVED", "EVENT_MOUSE_DRAGGED"}
  /\ post.status = UIOHOOK_SUCCESS
  /\ Len(post.calls) = 1

\* C37: on macOS, after any sequence of posted button events a posted
\* MOUSE_MOVED or MOUSE_DRAGGED is injected as the drag event of a button
\* that is still down when some button posted pressed was not posted
\* released since, and as kCGEventMouseMoved only when no posted button is
\* down.
C37_MoveDragsHeldButton ==
  DarwinMovePosted =>
    IF posted_down.buttons # {}
    THEN \E b \in posted_down.buttons :
           /\ post.calls[1].type = DragOf(b).type
           /\ post.calls[1].code = DragOf(b).code
    ELSE post.calls[1].type = "kCGEventMouseMoved"


\* The last synthesis call was hook_post_event of a button press or release
\* whose button the platform does not have: MOUSE_NOBUTTON, and on X11 any
\* button outside MOUSE_BUTTON1..MOUSE_BUTTON5.
InvalidButtonPosted ==
  /\ post.fn = "hook_post_event"
  /\ post.event.type \in PressTypes \cup ReleaseTypes
  /\ \/ post.event.button = MOUSE_NOBUTTON
     \/ /\ post.platform = "x11"
        /\ post.event.button \notin MOUSE_BUTTON1..MOUSE_BUTTON5

\* C38: hook_post_event of a button press or release with an invalid button
\* returns UIOHOOK_FAILURE and makes no native call at all, not even the
\* pointer move.
C38_InvalidButtonInjectsNothing ==
  InvalidButtonPosted =>
    /\ post.status = UIOHOOK_FAILURE
    /\ post.calls = << >>


\* The last synthesis call was hook_post_event with a type it does not post.
OtherEventPosted ==
  /\ post.fn = "hook_post_event"
  /\ post.event.type \in OtherTypes

\* C39, as stated: on every platform hook_post_event with EVENT_KEY_TYPED,
\* EVENT_MOUSE_CLICKED, EVENT_HOOK_ENABLED, EVENT_HOOK_DISABLED or an unknown
\* type returns UIOHOOK_FAILURE and makes no native call.
C39_OtherTypeReturnsFailure ==
  OtherEventPosted =>
    /\ post.status = UIOHOOK_FAILURE
    /\ post.calls = << >>

\* C39, amended: it makes no native call and returns UIOHOOK_FAILURE, or the
\* status of the step that failed ahead of the switch on the type:
\* UIOHOOK_ERROR_OUT_OF_MEMORY on Windows and macOS, and
\* UIOHOOK_ERROR_X_OPEN_DISPLAY on X11.
C39_OtherTypeIsRejected ==
  OtherEventPosted =>
    /\ post.calls = << >>
    /\ post.status \in
         {UIOHOOK_FAILURE,
          IF post.platform = "x11" THEN UIOHOOK_ERROR_X_OPEN_DISPLAY
          ELSE UIOHOOK_ERROR_OUT_OF_MEMORY}

\* EVENT_KEY_TYPED of a key the table holds was posted on Windows and
\* returned UIOHOOK_FAILURE without a call.
C39_Witness ==
  /\ OtherEventPosted
  /\ post.platform = "windows"
  /\ post.event.type = "EVENT_KEY_TYPED"
  /\ post.event.keycode = VC_A
  /\ post.status = UIOHOOK_FAILURE
  /\ post.calls = << >>

=============================================================================
